---- MODULE Spec2Model ----
(***************************************************************************)
(* Sidepanel tool-calling orchestrator (handleSend) and the background     *)
(* automation service (WebAutomationService): Policy Guard, injectability  *)
(* check and page-script injection.                                        *)
(*                                                                         *)
(* The specifications share the operators that model the code:            *)
(*   SpecPolicy  _enforcePolicies under changing settings (clock frozen)   *)
(*   SpecRate    _enforcePolicies under an advancing clock                 *)
(*   SpecExec    one operation: an automation action, the upc_lookup       *)
(*               handler or the ebay_search flow                           *)
(*   SpecOpen    open_url messages, one after the other                    *)
(*   SpecPoll    the polling loops with a moving clock and fair timers     *)
(*   SpecTurn    one user turn of handleSend in tool-calling mode          *)
(*   SpecStream  one user turn of handleSend in streaming mode             *)
(*   SpecHandleSend  one turn in either mode, every await settling         *)
(*   SpecContent get_page_content over pages of text pieces and forms      *)
(*   SpecOffers  the two offer extractors over lists of scraped items      *)
(*   SpecStore   TabContextManager.updateTabContext and removeTabContext   *)
(*   SpecTabEvents  the tab listeners with their refreshes in flight       *)
(*   SpecSummary the context summary of the active tab after refreshes     *)
(*   SpecFetch   the fetch_prices handler over a page that renders late    *)
(*   SpecCatalog one turn under a stored automation_enabled setting        *)
(*   SpecDecode  the stream reader of chatWithStreaming over split bodies  *)
(***************************************************************************)
EXTENDS Integers, Sequences, FiniteSets, TLC

(***************************************************************************)
(* Bounds of the model and constants of the program.                       *)
(***************************************************************************)
\* bound: authorize calls explored under SpecPolicy
MaxAuthCalls == 3
\* bound: authorize calls explored under SpecRate
MaxRateCalls == 4
\* bound: largest rate limit a settings load stores
MaxLimit == 2
\* bound: the clock stops advancing here (ms)
MaxNow == 45001
\* background.js:141  const windowMs = 30_000
windowMs == 30000
\* background.js:36 and :81  rateLimitPer30s default
DefaultRateLimit == 20

TabIds == {1, 2}

\* a field that is not set (JavaScript undefined)
Undefined == "<undefined>"

(***************************************************************************)
(* Strings.  TLC treats a string as a sequence of characters.              *)
(***************************************************************************)
startsWith(s, p) == Len(s) >= Len(p) /\ SubSeq(s, 1, Len(p)) = p

endsWith(s, p) == Len(s) >= Len(p) /\ SubSeq(s, Len(s) - Len(p) + 1, Len(s)) = p

CharAt(s, i) == SubSeq(s, i, i)

\* first index >= i at which p occurs in s, 0 when there is none
RECURSIVE IndexFrom(_, _, _)
IndexFrom(s, p, i) ==
    IF i + Len(p) - 1 > Len(s) THEN 0
    ELSE IF SubSeq(s, i, i + Len(p) - 1) = p THEN i
    ELSE IndexFrom(s, p, i + 1)

\* the longest prefix of s[i..] holding none of the characters that end a host
RECURSIVE HostEnd(_, _)
HostEnd(s, i) ==
    IF i > Len(s) THEN Len(s)
    ELSE IF CharAt(s, i) \in {"/", "?", "#", ":"} THEN i - 1
    ELSE HostEnd(s, i + 1)

\* the characters a URL scheme may hold
SchemeChars ==
    {"a", "b", "c", "d", "e", "f", "g", "h", "i", "j", "k", "l", "m", "n",
     "o", "p", "q", "r", "s", "t", "u", "v", "w", "x", "y", "z", "-", "+", "."}

IsScheme(s) == Len(s) > 0 /\ \A i \in 1..Len(s) : CharAt(s, i) \in SchemeChars

\* new URL(url).hostname; "" stands for both a thrown TypeError and an empty host
UrlHostname(url) ==
    LET i == IndexFrom(url, "://", 1) IN
    IF i = 0 \/ ~IsScheme(SubSeq(url, 1, i - 1)) THEN ""
    ELSE SubSeq(url, i + 3, HostEnd(url, i + 3))

(***************************************************************************)
(* WebAutomationService: pure parts.                                       *)
(***************************************************************************)
blockedSchemes ==
    {"chrome://", "edge://", "brave://", "vivaldi://", "opera://", "about:",
     "devtools://", "chrome-extension://", "data:", "file://"}

\* a mutation of isInjectableUrl: everything not blocked is allowed
isInjectableUrl_allowUnblocked(url) ==
    /\ url # ""
    /\ ~\E p \in blockedSchemes : startsWith(url, p)

isInjectableUrl(url) ==
    IF url = "" THEN FALSE
    ELSE IF \E p \in blockedSchemes : startsWith(url, p) THEN FALSE
    ELSE startsWith(url, "http://") \/ startsWith(url, "https://")

_getDomain(url) == UrlHostname(url)

\* a mutation of domainMatches: plain suffix match, without the dot
domainMatches_plainSuffix(domain, whitelist) ==
    \E i \in 1..Len(whitelist) :
        domain = whitelist[i] \/ endsWith(domain, whitelist[i])

\* domainWhitelist.some((d) => domain === d || domain.endsWith("." + d))
domainMatches(domain, whitelist) ==
    \E i \in 1..Len(whitelist) :
        domain = whitelist[i] \/ endsWith(domain, "." \o whitelist[i])

(***************************************************************************)
(* Redaction of the extracted page content.                                *)
(***************************************************************************)
Digits == {"0", "1", "2", "3", "4", "5", "6", "7", "8", "9"}

\* [A-Z] under the i flag
Letters ==
    {"a", "b", "c", "d", "e", "f", "g", "h", "i", "j", "k", "l", "m", "n",
     "o", "p", "q", "r", "s", "t", "u", "v", "w", "x", "y", "z",
     "A", "B", "C", "D", "E", "F", "G", "H", "I", "J", "K", "L", "M", "N",
     "O", "P", "Q", "R", "S", "T", "U", "V", "W", "X", "Y", "Z"}

\* \w
WordChars == Letters \cup Digits \cup {"_"}

\* [A-Z0-9._%+-]
LocalChars == Letters \cup Digits \cup {".", "_", "%", "+", "-"}

\* [A-Z0-9.-]
DomainChars == Letters \cup Digits \cup {".", "-"}

\* {6,} in /\b\d{6,}\b/g
MinDigitRun == 6

\* {2,} in the email pattern
MinTld == 2

SetMax(S) == CHOOSE x \in S : \A y \in S : y <= x

\* \b before position i of s (i = Len(s) + 1: at the end)
Boundary(s, i) ==
    (i > 1 /\ CharAt(s, i - 1) \in WordChars)
       # (i <= Len(s) /\ CharAt(s, i) \in WordChars)

\* the end of the longest run of characters of C that starts at i
\* (i - 1 when s[i] is not in C)
RECURSIVE RunEnd(_, _, _)
RunEnd(s, i, C) ==
    IF i > Len(s) \/ CharAt(s, i) \notin C THEN i - 1
    ELSE RunEnd(s, i + 1, C)

\* the ends of a top-level domain that starts at i: two letters or more,
\* then \b
TldEnds(s, i) ==
    {e \in (i + MinTld - 1)..RunEnd(s, i, Letters) : Boundary(s, e + 1)}

\* the end of the match of the email pattern that starts at i, 0 when there
\* is none; greedy quantifiers: the longest domain first, then the longest
\* top-level domain
EmailMatchEnd(s, i) ==
    IF ~Boundary(s, i) THEN 0
    ELSE LET l == RunEnd(s, i, LocalChars) IN
         IF l < i \/ l + 1 > Len(s) \/ CharAt(s, l + 1) # "@" THEN 0
         ELSE LET d == RunEnd(s, l + 2, DomainChars)
                  E2 == {e \in (l + 2)..(d - 1) :
                            CharAt(s, e + 1) = "." /\ TldEnds(s, e + 2) # {}}
              IN IF E2 = {} THEN 0
                 ELSE SetMax(TldEnds(s, SetMax(E2) + 2))

\* out.replace(/\b[A-Z0-9._%+-]+@[A-Z0-9.-]+\.[A-Z]{2,}\b/gi, "[EMAIL]")
RECURSIVE ReplaceEmails(_, _)
ReplaceEmails(s, i) ==
    IF i > Len(s) THEN ""
    ELSE LET e == EmailMatchEnd(s, i) IN
         IF e > 0 THEN "[EMAIL]" \o ReplaceEmails(s, e + 1)
         ELSE CharAt(s, i) \o ReplaceEmails(s, i + 1)

\* the end of the match of /\b\d{6,}\b/ that starts at i, 0 when there is none
NumberMatchEnd(s, i) ==
    IF ~Boundary(s, i) THEN 0
    ELSE LET E == {e \in (i + MinDigitRun - 1)..RunEnd(s, i, Digits) :
                      Boundary(s, e + 1)}
         IN IF E = {} THEN 0 ELSE SetMax(E)

\* a mutation of NumberReplacement: the run is replaced by a masked number
NumberReplacement_masked(match) == "#0000000"

\* the replacement of a matched run of digits
NumberReplacement(match) == "[NUMBER]"

\* out.replace(/\b\d{6,}\b/g, "[NUMBER]")
RECURSIVE ReplaceNumbers(_, _)
ReplaceNumbers(s, i) ==
    IF i > Len(s) THEN ""
    ELSE LET e == NumberMatchEnd(s, i) IN
         IF e > 0 THEN NumberReplacement(SubSeq(s, i, e)) \o ReplaceNumbers(s, e + 1)
         ELSE CharAt(s, i) \o ReplaceNumbers(s, i + 1)

_redactText(text) ==
    IF text = "" THEN text
    ELSE ReplaceNumbers(ReplaceEmails(text, 1), 1)

\* String.prototype.toLowerCase over the ASCII letters
LowerOf ==
    [A |-> "a", B |-> "b", C |-> "c", D |-> "d", E |-> "e", F |-> "f",
     G |-> "g", H |-> "h", I |-> "i", J |-> "j", K |-> "k", L |-> "l",
     M |-> "m", N |-> "n", O |-> "o", P |-> "p", Q |-> "q", R |-> "r",
     S |-> "s", T |-> "t", U |-> "u", V |-> "v", W |-> "w", X |-> "x",
     Y |-> "y", Z |-> "z"]

RECURSIVE toLowerCase(_)
toLowerCase(s) ==
    IF s = "" THEN ""
    ELSE LET c == CharAt(s, 1) IN
         (IF c \in DOMAIN LowerOf THEN LowerOf[c] ELSE c)
            \o toLowerCase(SubSeq(s, 2, Len(s)))

\* /token|password|secret/i.test(name)
SensitiveName(name) ==
    \E w \in {"token", "password", "secret"} :
        IndexFrom(toLowerCase(name), w, 1) > 0

\* isSensitive in _sanitizeForms
isSensitive(f) == toLowerCase(f.type) = "password" \/ SensitiveName(f.name)

\* a mutation of FormValue: the value of a field that is not sensitive is kept
FormValue_keepsPlain(f) == IF isSensitive(f) THEN "[REDACTED]" ELSE f.value

\* the value _sanitizeForms gives to a descriptor
FormValue(f) ==
    IF isSensitive(f) THEN "[REDACTED]"
    ELSE IF f.value # "" THEN "[REDACTED]"
    ELSE ""

\* forms.map((f) => ({ ...f, value: ... }))
_sanitizeForms(forms) ==
    [k \in 1..Len(forms) |-> [forms[k] EXCEPT !.value = FormValue(forms[k])]]

\* the sanitized object of getPageContent: text: _redactText(raw.text || ""),
\* forms: raw.forms ? _sanitizeForms(raw.forms) : undefined
Sanitized(raw, includeForms) ==
    [title |-> raw.title, url |-> raw.url, headings |-> raw.headings,
     text |-> _redactText(raw.text),
     forms |-> IF includeForms THEN _sanitizeForms(raw.forms) ELSE <<>>,
     hasForms |-> includeForms]

(***************************************************************************)
(* The offer extractors: filter, sort and truncate the scraped items.      *)
(***************************************************************************)
\* priceValue of an item whose price text did not parse
Null == -1

\* JavaScript Infinity: above every price
Infinity == 1000000

\* a.priceValue || Infinity
SortKey(priceValue) == IF priceValue = 0 THEN Infinity ELSE priceValue

\* x placed in the sorted list xs after the items that do not compare
\* greater: Array.prototype.sort is stable and the comparator is
\* (a, b) => (a.priceValue || Infinity) - (b.priceValue || Infinity)
RECURSIVE InsertSorted(_, _)
InsertSorted(xs, x) ==
    IF xs = <<>> THEN <<x>>
    ELSE IF SortKey(Head(xs).priceValue) - SortKey(x.priceValue) > 0
         THEN <<x>> \o xs
         ELSE <<Head(xs)>> \o InsertSorted(Tail(xs), x)

RECURSIVE SortOffers(_)
SortOffers(xs) ==
    IF xs = <<>> THEN <<>>
    ELSE InsertSorted(SortOffers(SubSeq(xs, 1, Len(xs) - 1)), xs[Len(xs)])

\* items.filter((x) => x.title && x.priceValue != null)
Priced(x) == x.title # "" /\ x.priceValue # Null

\* filtered.slice(0, Math.max(1, Number(limit) || 5)) for a positive limit
Truncate(xs, limit) == SubSeq(xs, 1, IF limit < Len(xs) THEN limit ELSE Len(xs))

\* the data of the page script of extractGoogleShoppingOffers
GoogleOffers(items, wantUsed, limit) ==
    Truncate(SortOffers(SelectSeq(SelectSeq(items, Priced),
                                  LAMBDA x : wantUsed \/ ~x.isUsed)),
             limit)

\* the data of the page script of extractStoreOffers, whose items carry no
\* isUsed mark
StoreOffers(items, limit) ==
    Truncate(SortOffers(SelectSeq(
                 [k \in 1..Len(items) |-> [items[k] EXCEPT !.isUsed = FALSE]],
                 Priced)),
             limit)

PolicyOk == [success |-> TRUE, error |-> Undefined, action |-> Undefined]

Failure(err, actionName) == [success |-> FALSE, error |-> err, action |-> actionName]

\* a mutation of DomainVerdict: an empty whitelist allows no domain
DomainVerdict_emptyDeniesAll(urlHint, tabUrl, whitelist, actionName) ==
    LET domain == _getDomain(IF urlHint # "" THEN urlHint ELSE tabUrl) IN
    IF domain # "" /\ ~domainMatches(domain, whitelist)
    THEN Failure("Domain not allowed: " \o domain, actionName)
    ELSE PolicyOk

\* the domain check once chrome.tabs.get has answered with a tab
\* (the hostname comes from urlHint || tab.url || "")
DomainVerdict(urlHint, tabUrl, whitelist, actionName) ==
    LET domain == _getDomain(IF urlHint # "" THEN urlHint ELSE tabUrl) IN
    IF domain # "" /\ Len(whitelist) > 0 /\ ~domainMatches(domain, whitelist)
    THEN Failure("Domain not allowed: " \o domain, actionName)
    ELSE PolicyOk

\* a mutation of RateEntry: the window never expires
RateEntry_noReset(counter, tabId, t) ==
    LET entry == IF tabId \in DOMAIN counter THEN counter[tabId]
                 ELSE [count |-> 0, windowStart |-> t]
    IN  [entry EXCEPT !.count = @ + 1]

\* the entry stored for the tab by one pass through the rate limiter
RateEntry(counter, tabId, t) ==
    LET entry == IF tabId \in DOMAIN counter THEN counter[tabId]
                 ELSE [count |-> 0, windowStart |-> t]
        fresh == IF t - entry.windowStart > windowMs
                 THEN [count |-> 0, windowStart |-> t]
                 ELSE entry
    IN  [fresh EXCEPT !.count = @ + 1]

\* a mutation of RateVerdict: the limit is checked against one call less
RateVerdict_offByOne(entry, limit, actionName) ==
    IF entry.count > limit + 1 THEN Failure("Rate limit exceeded", actionName)
    ELSE PolicyOk

\* a mutation of RateVerdict: the limit is checked as before the increment
RateVerdict_atLimit(entry, limit, actionName) ==
    IF entry.count >= limit THEN Failure("Rate limit exceeded", actionName)
    ELSE PolicyOk

RateVerdict(entry, limit, actionName) ==
    IF entry.count > limit THEN Failure("Rate limit exceeded", actionName)
    ELSE PolicyOk

MapSet(m, k, v) == [x \in DOMAIN m \cup {k} |-> IF x = k THEN v ELSE m[x]]

\* Number.isFinite(rl) && rl > 0 ? rl : 20   (0 stands for every unusable value)
NormalizeRateLimit(raw) == IF raw > 0 THEN raw ELSE DefaultRateLimit

(***************************************************************************)
(* State.                                                                  *)
(***************************************************************************)
VARIABLES
    settings,     \* WebAutomationService.settings
    now,          \* Date.now(), in ms
    rateCounter,  \* WebAutomationService.rateCounter: tabId -> {count, windowStart}
    auth,         \* the _enforcePolicies call in progress, then its outcome
    nAuth,        \* number of _enforcePolicies calls started
    rateLog       \* history: the calls that reached the rate limiter

policyVars == <<settings, now, rateCounter, auth, nAuth, rateLog>>

\* the sidepanel: one user turn of handleSend
VARIABLES
    tpc,        \* where handleSend stands
    i,          \* the loop counter of the round-trip loop
    convo,      \* the conversation sent to the model
    messages,   \* the visible conversation (React state)
    loading,    \* the loading flag
    batch,      \* toolCalls of the response being processed
    nextIdx,    \* index in batch of the next call to dispatch
    inFlight,   \* indexes in batch of the calls dispatched and not yet returned
    responses,  \* history: the gateway responses received in this turn
    sent,       \* history: the conversation sent with each chat request
    events,     \* history: dispatch starts and returns, in order
    emitted     \* history: the tool calls of the processed responses, in order

turnVars ==
    <<tpc, i, convo, messages, loading, batch, nextIdx, inFlight,
      responses, sent, events, emitted>>

\* the gateway requests of the sidepanel
VARIABLES
    toolsSent,  \* history: the functions argument of each gateway request
    frames,     \* history: the stream events delivered to chatWithStreaming
    automationEnabled  \* the sidepanel's automationEnabled state

streamVars == <<toolsSent, frames, automationEnabled>>

\* the page shown in a tab and what get_page_content made of it
VARIABLES
    page,       \* the document: innerText and the form controls
    extracted,  \* data of the last successful get_page_content result
    offers,     \* the product cards of the page, as the page script reads them
    offered     \* data of the last successful offer extraction

pageVars == <<page, extracted, offers, offered>>

\* TabContextManager and the tab event listeners
VARIABLES
    contexts,     \* TabContextManager.contexts: tabId -> entry
    activeTabId,  \* TabContextManager.activeTabId
    refreshing,   \* per tab: load events seen, and those whose handler awaits
    closed,       \* history: the tabs whose removal was handled
    summary       \* the last get_active_context_summary response

storeVars == <<contexts, activeTabId, refreshing, closed, summary>>

\* chatWithStreaming reading the response body
VARIABLES
    dpc,      \* where the reader loop stands
    body,     \* history: the lines the server sent
    wire,     \* the text of the body not yet handed out by reader.read
    buffer,   \* the incomplete line kept between two reads
    chunks    \* history: the arguments of the onChunk calls, in order

decodeVars == <<dpc, body, wire, buffer, chunks>>

\* the Automation Executor: one operation
VARIABLES
    op,        \* the service action in progress, then its return value
    job,       \* the operation in progress: a message handler or a sidepanel flow
    verdict,   \* history: last Policy Guard verdict per tab within the operation
    lastInj    \* history: the last page script that ran

execVars == <<op, job, verdict, lastInj>>

\* constructor: this.settings = {...}
DefaultSettings ==
    [allowAllAutomation |-> FALSE, domainWhitelist |-> <<>>,
     rateLimitPer30s |-> DefaultRateLimit]

AuthIdle ==
    [pc |-> "idle", tabId |-> 0, actionName |-> Undefined, urlHint |-> "",
     allowAll |-> FALSE, lookup |-> "none", domain |-> Undefined,
     whitelist |-> <<>>, result |-> PolicyOk]

PolicyInit ==
    /\ settings = DefaultSettings
    /\ now = 0
    /\ rateCounter = <<>>
    /\ auth = AuthIdle
    /\ nAuth = 0
    /\ rateLog = <<>>

\* what chrome.storage.local may hold for the three automation keys
StoredWhitelists == {<<>>, <<"example.com">>, <<"example.com", "shop.org">>}

StoredRateLimits == 0..MaxLimit

\* the URLs a tab may show when chrome.tabs.get answers ("" : tab.url not set)
TabUrls ==
    {"https://example.com/", "https://sub.example.com/page", "https://other.com",
     "http://badexample.com/x", "chrome://extensions", "about:blank",
     "ftp://files.example.com/", ""}

\* the urlHint values openUrl passes on ("" : no hint, as every other action)
UrlHints == {"", "https://sub.example.com/page", "https://other.com/", "not a url"}

\* _loadSettings, after its storage read: the three assignments
LoadSettings(wls, raws) ==
    /\ \E aa \in BOOLEAN, wl \in wls, raw \in raws :
          settings' = [allowAllAutomation |-> aa, domainWhitelist |-> wl,
                       rateLimitPer30s |-> NormalizeRateLimit(raw)]
    /\ UNCHANGED <<now, rateCounter, auth, nAuth, rateLog>>
    /\ UNCHANGED <<turnVars, execVars, streamVars, pageVars, storeVars, decodeVars>>

\* lines 139-157: the rate limiter, run to the end of _enforcePolicies
Limiter(a, logging) ==
    LET entry == RateEntry(rateCounter, a.tabId, now)
        res   == RateVerdict(entry, settings.rateLimitPer30s, a.actionName)
    IN  /\ rateCounter' = MapSet(rateCounter, a.tabId, entry)
        /\ auth' = [a EXCEPT !.pc = "done", !.result = res]
        /\ rateLog' = IF logging
                      THEN Append(rateLog, [tabId |-> a.tabId, t |-> now,
                                            limit |-> settings.rateLimitPer30s,
                                            ok |-> res.success])
                      ELSE rateLog

\* _enforcePolicies(tabId, actionName, urlHint) up to its first suspension:
\* with allowAllAutomation the call runs through the rate limiter at once,
\* otherwise it awaits chrome.tabs.get
BeginPolicy(tabId, actionName, hint, logging) ==
    LET a == [AuthIdle EXCEPT !.tabId = tabId, !.actionName = actionName,
                              !.urlHint = hint,
                              !.allowAll = settings.allowAllAutomation]
    IN  /\ nAuth' = nAuth + 1
        /\ IF settings.allowAllAutomation
           THEN Limiter(a, logging)
           ELSE /\ auth' = [a EXCEPT !.pc = "tabsGet"]
                /\ UNCHANGED <<rateCounter, rateLog>>

\* an action calls _enforcePolicies: openUrl with the URL to open as urlHint,
\* every other action without a hint
AuthBegin(hints, maxCalls, logging) ==
    /\ auth.pc \in {"idle", "done"}
    /\ nAuth < maxCalls
    /\ \E tabId \in TabIds, hint \in hints :
          BeginPolicy(tabId, IF hint = "" THEN "click_element" ELSE "open_url",
                      hint, logging)
    /\ UNCHANGED <<settings, now>>
    /\ UNCHANGED <<turnVars, execVars, streamVars, pageVars, storeVars, decodeVars>>

\* chrome.tabs.get rejects: the catch block fails closed
AuthTabsGetThrows ==
    /\ auth.pc = "tabsGet"
    /\ auth' = [auth EXCEPT !.pc = "done", !.lookup = "threw",
                  !.result = Failure("Unable to verify domain policy", auth.actionName)]
    /\ UNCHANGED <<settings, now, rateCounter, nAuth, rateLog>>
    /\ UNCHANGED <<turnVars, execVars, streamVars, pageVars, storeVars, decodeVars>>

\* a mutation of AuthTabsGet: the call is counted before the domain check
AuthTabsGet_countsFirst(urls, logging) ==
    /\ auth.pc = "tabsGet"
    /\ \E url \in urls :
          LET src == IF auth.urlHint # "" THEN auth.urlHint ELSE url
              a   == [auth EXCEPT !.lookup = "tab", !.domain = _getDomain(src),
                                  !.whitelist = settings.domainWhitelist]
              dv  == DomainVerdict(auth.urlHint, url, settings.domainWhitelist,
                                   auth.actionName)
          IN  IF ~dv.success
              THEN /\ auth' = [a EXCEPT !.pc = "done", !.result = dv]
                   /\ rateCounter' = MapSet(rateCounter, auth.tabId,
                                            RateEntry(rateCounter, auth.tabId, now))
                   /\ UNCHANGED rateLog
              ELSE Limiter(a, logging)
    /\ UNCHANGED <<settings, now, nAuth>>
    /\ UNCHANGED <<turnVars, execVars, streamVars, pageVars, storeVars, decodeVars>>

\* chrome.tabs.get answers: domain check, then the rate limiter
AuthTabsGet(urls, logging) ==
    /\ auth.pc = "tabsGet"
    /\ \E url \in urls :
          LET src == IF auth.urlHint # "" THEN auth.urlHint ELSE url
              a   == [auth EXCEPT !.lookup = "tab", !.domain = _getDomain(src),
                                  !.whitelist = settings.domainWhitelist]
              dv  == DomainVerdict(auth.urlHint, url, settings.domainWhitelist,
                                   auth.actionName)
          IN  IF ~dv.success
              THEN /\ auth' = [a EXCEPT !.pc = "done", !.result = dv]
                   /\ UNCHANGED <<rateCounter, rateLog>>
              ELSE Limiter(a, logging)
    /\ UNCHANGED <<settings, now, nAuth>>
    /\ UNCHANGED <<turnVars, execVars, streamVars, pageVars, storeVars, decodeVars>>

\* the clock moves on between two events
Tick ==
    /\ \E d \in {windowMs \div 2, windowMs \div 2 + 1} :
          /\ now + d <= MaxNow
          /\ now' = now + d
    /\ UNCHANGED <<settings, rateCounter, auth, nAuth, rateLog>>
    /\ UNCHANGED <<turnVars, execVars, streamVars, pageVars, storeVars, decodeVars>>

(***************************************************************************)
(* SpecPolicy: _enforcePolicies called by the actions (openUrl passes a    *)
(* urlHint) while the stored settings change; the clock stands still.      *)
(***************************************************************************)
NextPolicy ==
    \/ LoadSettings(StoredWhitelists, StoredRateLimits)
    \/ AuthBegin(UrlHints, MaxAuthCalls, FALSE)
    \/ AuthTabsGetThrows
    \/ AuthTabsGet(TabUrls, FALSE)

(***************************************************************************)
(* SpecRate: the settings are loaded at startup and then stay; the clock   *)
(* advances between calls and every rate-checked call is logged.           *)
(***************************************************************************)
NextRate ==
    \/ (nAuth = 0 /\ LoadSettings({<<"example.com">>}, 1..MaxLimit))
    \/ AuthBegin({""}, MaxRateCalls, TRUE)
    \/ AuthTabsGetThrows
    \/ AuthTabsGet({"https://example.com/", "https://other.com"}, TRUE)
    \/ Tick

(***************************************************************************)
(* Policy Guard: domain allow-list.                                        *)
(***************************************************************************)
\* h equals entry d or is a subdomain of it
CoveredBy(h, d) ==
    \/ h = d
    \/ /\ Len(h) > Len(d) + 1
       /\ SubSeq(h, Len(h) - Len(d), Len(h)) = "." \o d

Finished == auth.pc = "done"

DomainRejected ==
    auth.result = Failure("Domain not allowed: " \o auth.domain, auth.actionName)

\* C5: with allowAllAutomation false and a non-empty whitelist, a call whose
\* hostname h resolved fails with 'Domain not allowed: h' exactly when h
\* neither equals a whitelist entry nor is a subdomain of one; with whitelist
\* [example.com], example.com and sub.example.com pass, other.com and
\* badexample.com are rejected.
C5_DomainAllowList ==
    (Finished /\ ~auth.allowAll /\ auth.lookup = "tab"
       /\ Len(auth.whitelist) > 0 /\ auth.domain # "")
    => /\ DomainRejected <=>
            ~\E n \in 1..Len(auth.whitelist) : CoveredBy(auth.domain, auth.whitelist[n])
       /\ (auth.whitelist = <<"example.com">>
             /\ auth.domain \in {"example.com", "sub.example.com"})
          => ~DomainRejected
       /\ (auth.whitelist = <<"example.com">>
             /\ auth.domain \in {"other.com", "badexample.com"})
          => DomainRejected

C5_Witness ==
    /\ Finished /\ ~auth.allowAll
    /\ auth.whitelist = <<"example.com">>
    /\ auth.domain = "badexample.com"
    /\ auth.result.error = "Domain not allowed: badexample.com"

\* C8: with allowAllAutomation false, a call whose hostname could not be
\* resolved (the tab lookup failed, or the URL is empty or does not parse)
\* returns the failure 'Unable to verify domain policy'.
C8_FailsClosed ==
    (Finished /\ ~auth.allowAll /\ (auth.lookup = "threw" \/ auth.domain = ""))
    => auth.result = Failure("Unable to verify domain policy", auth.actionName)

(***************************************************************************)
(* Policy Guard: rate limiting, read off the log of rate-checked calls.    *)
(***************************************************************************)
TabLog(tabId) == SelectSeq(rateLog, LAMBDA e : e.tabId = tabId)

\* start of the 30 s window that call n of log s falls in: the first call
\* opens a window, a call more than windowMs after the start opens the next
RECURSIVE WindowOf(_, _)
WindowOf(s, n) ==
    IF n = 1 THEN s[1].t
    ELSE LET a == WindowOf(s, n - 1) IN
         IF s[n].t - a > windowMs THEN s[n].t ELSE a

\* calls of s up to n in the window of call n
InWindow(s, n) == {j \in 1..n : WindowOf(s, j) = WindowOf(s, n)}

\* C6: in one window every call beyond the L-th fails with 'Rate limit
\* exceeded', and the first call issued more than 30000 ms after the window
\* started resets the counter and succeeds.
C6_RateLimitAndReset ==
    \A tabId \in TabIds :
        LET s == TabLog(tabId) IN
        \A n \in 1..Len(s) :
            /\ Cardinality(InWindow(s, n)) > s[n].limit => ~s[n].ok
            /\ (n > 1 /\ s[n].t - WindowOf(s, n - 1) > windowMs) => s[n].ok
            /\ n = Len(s) =>
                  /\ rateCounter[tabId].windowStart = WindowOf(s, n)
                  /\ rateCounter[tabId].count = Cardinality(InWindow(s, n))

C6_Witness ==
    \E tabId \in TabIds :
        LET s == TabLog(tabId) IN
        \E n \in 2..Len(s) :
            /\ ~s[n - 1].ok
            /\ s[n].t - WindowOf(s, n - 1) > windowMs
            /\ s[n].ok
            /\ rateCounter[tabId].count = 1

\* successful calls of s up to n issued less than 30 s before call n
Last30s(s, n) == {j \in 1..n : s[j].ok /\ s[n].t - s[j].t < windowMs}

\* C7: sliding window - in every interval of 30 seconds at most
\* rateLimitPer30s calls of one tab succeed.
C7_SlidingWindow ==
    \A tabId \in TabIds :
        LET s == TabLog(tabId) IN
        \A n \in 1..Len(s) : Cardinality(Last30s(s, n)) <= s[n].limit

\* C7 as amended: fixed window - between a window's start and its reset at
\* most rateLimitPer30s calls of one tab succeed, so that an interval of 30
\* seconds holds at most twice as many.
C7_FixedWindow ==
    \A tabId \in TabIds :
        LET s == TabLog(tabId) IN
        \A n \in 1..Len(s) :
            /\ Cardinality({j \in InWindow(s, n) : s[j].ok}) <= s[n].limit
            /\ Cardinality(Last30s(s, n)) <= 2 * s[n].limit

C7_Witness ==
    \E tabId \in TabIds :
        LET s == TabLog(tabId) IN
        \E n \in 1..Len(s) :
            /\ Cardinality(Last30s(s, n)) > s[n].limit
            /\ Cardinality({j \in InWindow(s, n) : s[j].ok}) = s[n].limit

(***************************************************************************)
(* Sidepanel: one user turn of handleSend in tool-calling mode.            *)
(***************************************************************************)
\* part_003:374  for (let i = 0; i < 3; i++)
MaxRoundTrips == 3

\* a mutation of LoopContinues: one more round trip
LoopContinues_oneMore(k) == k <= MaxRoundTrips

LoopContinues(k) == k < MaxRoundTrips

\* a mutation of MayDispatch: the next call starts without awaiting the last
MayDispatch_noAwait(flying) == TRUE

\* await executeAutomationFunction(...): the for loop moves on to the next
\* call only once the call before it has returned
MayDispatch(flying) == flying = {}

\* the tool calls a model may emit: function name and serialized arguments
ClickCall == [name |-> "click_element", arguments |-> "{\"selector\":\"#go\"}"]

OpenCall == [name |-> "open_url", arguments |-> "{\"url\": oops"]

ContentCall == [name |-> "get_page_content", arguments |-> "null"]

UnknownCall == [name |-> "no_such_tool", arguments |-> ""]

ToolBatches ==
    {<<ClickCall>>, <<OpenCall, ClickCall>>, <<ClickCall, UnknownCall, OpenCall>>,
     <<ContentCall, ClickCall>>}

NoArray == [isArray |-> FALSE, items |-> <<>>]

NoFunctionCall == [present |-> FALSE, call |-> UnknownCall]

Contents == {"", "Here you go."}

\* choices[0].message of a gateway response
ModelMessages ==
    [content : Contents,
     tool_calls : {NoArray} \cup {[isArray |-> TRUE, items |-> b] : b \in ToolBatches},
     function_call : {NoFunctionCall}]
    \cup
    [content : {""},
     tool_calls : {NoArray, [isArray |-> TRUE, items |-> <<>>]},
     function_call : {[present |-> TRUE, call |-> ClickCall]}]

NoMessage == [content |-> "", tool_calls |-> NoArray, function_call |-> NoFunctionCall]

\* a gateway response: with or without choices[0].message
Responses ==
    {[hasMsg |-> TRUE, msg |-> m] : m \in ModelMessages}
    \cup {[hasMsg |-> FALSE, msg |-> NoMessage]}

\* lines 388-400: tool_calls when it is an array, else the legacy function_call
ToolCallsOf(msg) ==
    IF msg.tool_calls.isArray THEN msg.tool_calls.items
    ELSE IF msg.function_call.present THEN <<msg.function_call.call>>
    ELSE <<>>

\* JSON.parse of the payloads above: "object", "null", or "throws"
JsonParse(text) ==
    IF text = "null" THEN "null"
    ELSE IF Len(text) >= 2 /\ CharAt(text, 1) = "{" /\ CharAt(text, Len(text)) = "}"
    THEN "object"
    ELSE "throws"

\* lines 405-412: args of a call ("object" : some object, "null" : null)
ParseArgs(call) ==
    IF call.arguments = "" THEN "object"
    ELSE IF JsonParse(call.arguments) = "throws" THEN "object"
    ELSE JsonParse(call.arguments)

\* the cases of executeAutomationFunction that read a property of params
\* without ?. : with params null they throw a TypeError
ReadsParams ==
    {"open_url", "ebay_search", "click_element", "type_text", "get_page_content",
     "wait_for_element", "fetch_prices", "upc_lookup"}

ThrowsOnEntry(call) == ParseArgs(call) = "null" /\ call.name \in ReadsParams

\* what executeAutomationFunction may resolve to for a call
\* (hasSuccess FALSE : the object has no success field)
ToolResults(call) ==
    IF call.name \in ReadsParams
    THEN {[hasSuccess |-> TRUE, success |-> TRUE, error |-> Undefined],
          [hasSuccess |-> TRUE, success |-> FALSE, error |-> "Element not found"]}
    ELSE {[hasSuccess |-> FALSE, success |-> FALSE,
           error |-> "Unknown function: " \o call.name]}

\* a mutation of FinalAnswerText: the content is dropped
FinalAnswerText_dropped(msg) == ""

\* line 440: msg.content || ""
FinalAnswerText(msg) == msg.content

\* JSON.stringify(toolResult ?? {})
Stringify(res) ==
    IF ~res.hasSuccess THEN "{\"error\":\"" \o res.error \o "\"}"
    ELSE IF res.success THEN "{\"success\":true}"
    ELSE "{\"success\":false,\"error\":\"" \o res.error \o "\"}"

UserMsg == [role |-> "user", name |-> Undefined, content |-> "hello"]

AssistantMsg(text) == [role |-> "assistant", name |-> Undefined, content |-> text]

FunctionMsg(call, res) ==
    [role |-> "function", name |-> call.name, content |-> Stringify(res)]

\* an entry of the visible conversation
Visible(kind, text) == [role |-> "assistant", kind |-> kind, content |-> text]

TurnInit ==
    /\ tpc = "idle"
    /\ i = 0
    /\ convo = <<>>
    /\ messages = <<>>
    /\ loading = FALSE
    /\ batch = <<>>
    /\ nextIdx = 1
    /\ inFlight = {}
    /\ responses = <<>>
    /\ sent = <<>>
    /\ events = <<>>
    /\ emitted = <<>>

\* lines 304-314 and 371: the user message is shown and the turn starts
HandleSend ==
    /\ tpc = "idle"
    /\ messages' = Append(messages, [role |-> "user", kind |-> "user", content |-> UserMsg.content])
    /\ convo' = <<UserMsg>>
    /\ loading' = TRUE
    /\ i' = 0
    /\ tpc' = "loop"
    /\ UNCHANGED <<batch, nextIdx, inFlight, responses, sent, events, emitted>>
    /\ UNCHANGED <<policyVars, execVars, streamVars, pageVars, storeVars, decodeVars>>

\* lines 374-375: the loop test, then client.chat is called
ChatRequest ==
    /\ tpc = "loop"
    /\ IF LoopContinues(i)
       THEN /\ sent' = Append(sent, convo)
            /\ toolsSent' = Append(toolsSent, "toolFns")
            /\ tpc' = "awaitChat"
       ELSE /\ tpc' = "credits"
            /\ UNCHANGED <<sent, toolsSent>>
    /\ UNCHANGED <<frames, automationEnabled>>
    /\ UNCHANGED <<i, convo, messages, loading, batch, nextIdx, inFlight,
                   responses, events, emitted>>
    /\ UNCHANGED <<policyVars, execVars, pageVars, storeVars, decodeVars>>

\* lines 384-442: client.chat resolves
ChatReturns ==
    /\ tpc = "awaitChat"
    /\ \E resp \in Responses :
          /\ responses' = Append(responses, resp)
          /\ IF ~resp.hasMsg
             THEN /\ tpc' = "credits"
                  /\ UNCHANGED <<messages, batch, nextIdx, emitted>>
             ELSE IF Len(ToolCallsOf(resp.msg)) > 0
             THEN /\ batch' = ToolCallsOf(resp.msg)
                  /\ nextIdx' = 1
                  /\ emitted' = emitted \o ToolCallsOf(resp.msg)
                  /\ tpc' = "dispatch"
                  /\ UNCHANGED messages
             ELSE /\ messages' = Append(messages, Visible("answer", FinalAnswerText(resp.msg)))
                  /\ tpc' = "credits"
                  /\ UNCHANGED <<batch, nextIdx, emitted>>
    /\ UNCHANGED <<i, convo, loading, inFlight, sent, events>>
    /\ UNCHANGED <<policyVars, execVars, streamVars, pageVars, storeVars, decodeVars>>

\* a mutation of Abort: the error is not shown
Abort_silent(text) ==
    /\ messages' = messages
    /\ loading' = FALSE
    /\ tpc' = "done"

\* lines 451-461: the catch block and finally
Abort(text) ==
    /\ messages' = Append(messages, Visible("error", "Error: " \o text))
    /\ loading' = FALSE
    /\ tpc' = "done"

\* client.chat rejects (non-2xx status, network error)
ChatThrows ==
    /\ tpc = "awaitChat"
    /\ Abort("OpenRouter API error: 500 - upstream")
    /\ UNCHANGED <<i, convo, batch, nextIdx, inFlight, responses, sent, events, emitted>>
    /\ UNCHANGED <<policyVars, execVars, streamVars, pageVars, storeVars, decodeVars>>

\* lines 403-413: the next call of the batch is parsed and dispatched
ToolStart ==
    /\ tpc = "dispatch"
    /\ nextIdx <= Len(batch)
    /\ MayDispatch(inFlight)
    /\ events' = Append(events, [ev |-> "start", round |-> i, idx |-> nextIdx])
    /\ IF ThrowsOnEntry(batch[nextIdx])
       THEN /\ Abort("Cannot read properties of null")
            /\ UNCHANGED <<inFlight, nextIdx>>
       ELSE /\ inFlight' = inFlight \cup {nextIdx}
            /\ nextIdx' = nextIdx + 1
            /\ UNCHANGED <<messages, loading, tpc>>
    /\ UNCHANGED <<i, convo, batch, responses, sent, emitted>>
    /\ UNCHANGED <<policyVars, execVars, streamVars, pageVars, storeVars, decodeVars>>

\* a mutation of ToolReturns: a failed call ends the batch
ToolReturns_failureSkips ==
    /\ tpc = "dispatch"
    /\ \E j \in inFlight : \E res \in ToolResults(batch[j]) :
          /\ inFlight' = inFlight \ {j}
          /\ events' = Append(events, [ev |-> "return", round |-> i, idx |-> j])
          /\ messages' = Append(messages, Visible("status", batch[j].name))
          /\ convo' = convo \o <<AssistantMsg(""), FunctionMsg(batch[j], res)>>
          /\ nextIdx' = IF res.hasSuccess /\ res.success THEN nextIdx ELSE Len(batch) + 1
    /\ UNCHANGED <<tpc, i, loading, batch, responses, sent, emitted>>
    /\ UNCHANGED <<policyVars, execVars, streamVars, pageVars, storeVars, decodeVars>>

\* lines 413-432: a dispatched call resolves; status line and function message
ToolReturns ==
    /\ tpc = "dispatch"
    /\ \E j \in inFlight : \E res \in ToolResults(batch[j]) :
          /\ inFlight' = inFlight \ {j}
          /\ events' = Append(events, [ev |-> "return", round |-> i, idx |-> j])
          /\ messages' = Append(messages, Visible("status", batch[j].name))
          /\ convo' = convo \o <<AssistantMsg(""), FunctionMsg(batch[j], res)>>
    /\ UNCHANGED <<tpc, i, loading, batch, nextIdx, responses, sent, emitted>>
    /\ UNCHANGED <<policyVars, execVars, streamVars, pageVars, storeVars, decodeVars>>

\* chrome.runtime.sendMessage rejects: the await throws into the catch block
ToolThrows ==
    /\ tpc = "dispatch"
    /\ \E j \in inFlight :
          /\ batch[j].name \in ReadsParams
          /\ inFlight' = inFlight \ {j}
          /\ events' = Append(events, [ev |-> "threw", round |-> i, idx |-> j])
    /\ Abort("Could not establish connection")
    /\ UNCHANGED <<i, convo, batch, nextIdx, responses, sent, emitted>>
    /\ UNCHANGED <<policyVars, execVars, streamVars, pageVars, storeVars, decodeVars>>

\* line 434: continue - every call of the batch has returned
BatchDone ==
    /\ tpc = "dispatch"
    /\ nextIdx > Len(batch)
    /\ inFlight = {}
    /\ i' = i + 1
    /\ tpc' = "loop"
    /\ UNCHANGED <<convo, messages, loading, batch, nextIdx, inFlight,
                   responses, sent, events, emitted>>
    /\ UNCHANGED <<policyVars, execVars, streamVars, pageVars, storeVars, decodeVars>>

\* a mutation of Credits: the loading flag stays set
Credits_keepsLoading ==
    /\ tpc = "credits"
    /\ tpc' = "done"
    /\ UNCHANGED <<i, convo, messages, loading, batch, nextIdx, inFlight,
                   responses, sent, events, emitted>>
    /\ UNCHANGED <<policyVars, execVars, streamVars, pageVars, storeVars, decodeVars>>

\* lines 444-450 and finally: credits are refreshed, a failure is only logged
Credits ==
    /\ tpc = "credits"
    /\ loading' = FALSE
    /\ tpc' = "done"
    /\ UNCHANGED <<i, convo, messages, batch, nextIdx, inFlight,
                   responses, sent, events, emitted>>
    /\ UNCHANGED <<policyVars, execVars, streamVars, pageVars, storeVars, decodeVars>>

NextTurn ==
    \/ HandleSend
    \/ ChatRequest
    \/ ChatReturns
    \/ ChatThrows
    \/ ToolStart
    \/ ToolReturns
    \/ ToolThrows
    \/ BatchDone
    \/ Credits

(***************************************************************************)
(* Sidepanel: one user turn of handleSend in streaming mode.               *)
(***************************************************************************)
\* bound: stream events delivered in one turn
MaxFrames == 3

\* the lines a stream may deliver: a line is a data line or not, its payload
\* parses or not, the chunk has choices[0] or not, and choices[0].delta has
\* content and tool_calls or not ("" : no content)
ContentFrame(text) ==
    [isData |-> TRUE, parses |-> TRUE, hasChoice |-> TRUE, content |-> text,
     toolCall |-> FALSE]

ToolCallFrame ==
    [isData |-> TRUE, parses |-> TRUE, hasChoice |-> TRUE, content |-> "",
     toolCall |-> TRUE]

UsageFrame ==
    [isData |-> TRUE, parses |-> TRUE, hasChoice |-> FALSE, content |-> "",
     toolCall |-> FALSE]

GarbageFrame ==
    [isData |-> TRUE, parses |-> FALSE, hasChoice |-> FALSE, content |-> "",
     toolCall |-> FALSE]

CommentFrame ==
    [isData |-> FALSE, parses |-> FALSE, hasChoice |-> FALSE, content |-> "",
     toolCall |-> FALSE]

StreamFrames ==
    {ContentFrame("Hel"), ContentFrame("lo"), ToolCallFrame, UsageFrame,
     GarbageFrame, CommentFrame}

\* chatWithStreaming lines 116-137 and the onChunk callback of handleSend:
\* the text a line adds to the draft
DeltaText(f) ==
    IF f.isData /\ f.parses /\ f.hasChoice THEN f.content ELSE ""

\* a mutation of AppendDelta: the new text goes in front
AppendDelta_inFront(msgs, draftIndex, text) ==
    IF text = "" THEN msgs
    ELSE [msgs EXCEPT ![draftIndex].content = text \o @]

\* next[draftIndex] = {role: "assistant", content: (next[draftIndex]?.content || "") + text}
AppendDelta(msgs, draftIndex, text) ==
    IF text = "" THEN msgs
    ELSE [msgs EXCEPT ![draftIndex].content = @ \o text]

\* lines 304-327 with stream set: the user message and the empty draft are
\* shown, chatWithStreaming is called with functions = null
HandleSendStreaming ==
    /\ tpc = "idle"
    /\ messages' = messages \o
          <<[role |-> "user", kind |-> "user", content |-> UserMsg.content],
            Visible("draft", "")>>
    /\ sent' = Append(sent, <<UserMsg>>)
    /\ toolsSent' = Append(toolsSent, "null")
    /\ loading' = TRUE
    /\ tpc' = "streaming"
    /\ UNCHANGED <<i, convo, batch, nextIdx, inFlight, responses, events, emitted,
                   frames, automationEnabled>>
    /\ UNCHANGED <<policyVars, execVars, pageVars, storeVars, decodeVars>>

\* a line of the stream arrives and is processed
StreamLine ==
    /\ tpc = "streaming"
    /\ Len(frames) < MaxFrames
    /\ \E f \in StreamFrames :
          /\ frames' = Append(frames, f)
          /\ messages' = AppendDelta(messages, 2, DeltaText(f))
    /\ UNCHANGED <<tpc, i, convo, loading, batch, nextIdx, inFlight, responses,
                   sent, events, emitted, toolsSent, automationEnabled>>
    /\ UNCHANGED <<policyVars, execVars, pageVars, storeVars, decodeVars>>

\* data: [DONE], or the reader reports done: chatWithStreaming returns
StreamEnds ==
    /\ tpc = "streaming"
    /\ tpc' = "credits"
    /\ UNCHANGED <<i, convo, messages, loading, batch, nextIdx, inFlight,
                   responses, sent, events, emitted>>
    /\ UNCHANGED <<policyVars, execVars, streamVars, pageVars, storeVars, decodeVars>>

\* the response is not ok, or fetch or reader.read rejects: the catch block
StreamThrows ==
    /\ tpc = "streaming"
    /\ Abort("OpenRouter API error: 500 - upstream")
    /\ UNCHANGED <<i, convo, batch, nextIdx, inFlight, responses, sent, events, emitted>>
    /\ UNCHANGED <<policyVars, execVars, streamVars, pageVars, storeVars, decodeVars>>

NextStream ==
    \/ HandleSendStreaming
    \/ StreamLine
    \/ StreamEnds
    \/ StreamThrows
    \/ Credits

(***************************************************************************)
(* Automation Executor: the service actions, openUrl, the upc_lookup       *)
(* message handler and the sidepanel's ebay_search flow.                   *)
(***************************************************************************)
\* bound: polls of one wait loop that are followed by the short sleep
MaxPolls == 1

\* the actions that inject a page script after the injectability check
InjectingActions ==
    {"click_element", "type_text", "wait_for_element", "wait_for_any_selector",
     "get_page_content", "extractGoogleShoppingOffers", "extractStoreOffers"}

WaitActions == {"wait_for_element", "wait_for_any_selector"}

\* the action name each method hands to _enforcePolicies
ActionName(kind) ==
    IF kind \in {"extractGoogleShoppingOffers", "extractStoreOffers"}
    THEN "fetch_prices" ELSE kind

\* the error returned for a tab whose URL is not injectable
RestrictedError(kind) ==
    CASE kind = "click_element" -> "Restricted page. Cannot click elements."
      [] kind = "type_text" -> "Restricted page. Cannot type into elements."
      [] kind = "wait_for_element" -> "Restricted page. Cannot wait for elements."
      [] kind = "wait_for_any_selector" -> "Restricted page. Cannot wait for selectors."
      [] kind = "get_page_content" ->
            "Error: Target page is not script-injectable (restricted URL)"
      [] OTHER -> "Restricted page. Cannot extract offers."

TimeoutError(kind) ==
    IF kind = "wait_for_element" THEN "Timeout waiting for element"
    ELSE "Timeout waiting for any selector"

\* setTimeout(r, 200) in waitForElement, setTimeout(r, 250) in waitForAnySelector
PollInterval(kind) == IF kind = "wait_for_element" THEN 200 ELSE 250

\* String(error) of a rejected chrome.* call
ChromeError == "Error: chrome call rejected"

OpIdle ==
    [pc |-> "idle", kind |-> "none", tabId |-> 0, lookup |-> "none",
     urlRead |-> Undefined, url |-> "", start |-> 0, timeout |-> 0, polls |-> 0,
     injected |-> 0, success |-> TRUE, error |-> Undefined, openedId |-> 0,
     newTab |-> FALSE, failed |-> "none", found |-> FALSE,
     includeForms |-> TRUE, includeUsed |-> FALSE, maxResults |-> 5,
     before |-> <<>>]

JobIdle ==
    [pc |-> "idle", kind |-> "none", tabId |-> 0, steps |-> <<>>, step |-> 0,
     success |-> TRUE, error |-> Undefined, data |-> FALSE, n |-> 0,
     responses |-> 0, start |-> 0, timeout |-> 0,
     action |-> Undefined, fails |-> 0,
     last |-> [success |-> TRUE, error |-> Undefined, action |-> Undefined],
     soldOnly |-> FALSE, condition |-> "", filtered |-> FALSE,
     caller |-> "none", ready |-> "none", seen |-> FALSE, maxResults |-> 5,
     asked |-> <<>>, sources |-> <<>>, flow |-> "none"]

NoInjection ==
    [site |-> "none", tabId |-> 0, urlRead |-> Undefined, verdict |-> "none"]

ExecInit ==
    /\ op = OpIdle
    /\ job = JobIdle
    /\ verdict = [t \in TabIds |-> "none"]
    /\ lastInj = NoInjection

\* the URLs a tab shows under SpecExec
ExecUrls ==
    {"https://www.upcitemdb.com/upc/012345678905", "https://example.com/",
     "chrome://extensions", "ftp://files.example.com/", ""}

\* a call of one of the seven injecting methods: up to await chrome.tabs.get
CallAction(kind, tabId, timeout) ==
    [OpIdle EXCEPT !.pc = "tabsGet", !.kind = kind, !.tabId = tabId,
                   !.timeout = timeout, !.before = rateCounter]

\* a return of the action in progress
Return(o, ok, err) == [o EXCEPT !.pc = "done", !.success = ok, !.error = err]

\* the end of an operation: its response
Respond(j, ok, err) ==
    [j EXCEPT !.pc = "done", !.success = ok, !.error = err, !.responses = @ + 1]

\* a mutation of Caught: the exception leaves the action
Caught_propagates(o, api) == [o EXCEPT !.pc = "threw", !.failed = api]

\* catch (error) { return { success: false, error: String(error), action } }
\* after the chrome.* call api rejected
Caught(o, api) == Return([o EXCEPT !.failed = api], FALSE, ChromeError)

\* a page script ran in the tab
Injection(site, tabId, urlRead) ==
    [site |-> site, tabId |-> tabId, urlRead |-> urlRead, verdict |-> verdict[tabId]]

\* a message asks for one action (the model may also run it by itself, as
\* tabs.onUpdated does with getPageContent); timeout = 10000 by default
StartAction ==
    /\ job.pc = "idle"
    /\ \E kind \in InjectingActions, tabId \in TabIds :
          op' = CallAction(kind, tabId, 10000)
    /\ job' = [JobIdle EXCEPT !.pc = "action", !.kind = "action"]
    /\ UNCHANGED <<verdict, lastInj>>
    /\ UNCHANGED policyVars
    /\ UNCHANGED <<turnVars, streamVars, pageVars, storeVars, decodeVars>>

\* the message handler sends the action's return value as the response
ActionResponds ==
    /\ job.pc = "action"
    /\ op.pc = "done"
    /\ job' = Respond(job, op.success, op.error)
    /\ UNCHANGED <<op, verdict, lastInj>>
    /\ UNCHANGED policyVars
    /\ UNCHANGED <<turnVars, streamVars, pageVars, storeVars, decodeVars>>

\* chrome.tabs.get(tabId) rejects: the catch block of the action
ActTabsGetThrows ==
    /\ op.pc = "tabsGet"
    /\ op' = Caught([op EXCEPT !.lookup = "threw"], "tabs.get")
    /\ UNCHANGED <<job, verdict, lastInj>>
    /\ UNCHANGED policyVars
    /\ UNCHANGED <<turnVars, streamVars, pageVars, storeVars, decodeVars>>

\* chrome.tabs.get(tabId) answers: injectability check, then _enforcePolicies
ActTabsGet ==
    /\ op.pc = "tabsGet"
    /\ \E url \in ExecUrls :
          LET o == [op EXCEPT !.lookup = "tab", !.urlRead = url] IN
          IF ~isInjectableUrl(url)
          THEN /\ op' = Return(o, FALSE, RestrictedError(op.kind))
               /\ UNCHANGED <<auth, nAuth, rateCounter, rateLog>>
          ELSE /\ op' = [o EXCEPT !.pc = "policy"]
               /\ BeginPolicy(op.tabId, ActionName(op.kind), "", FALSE)
    /\ UNCHANGED <<settings, now>>
    /\ UNCHANGED <<job, verdict, lastInj>>
    /\ UNCHANGED <<turnVars, streamVars, pageVars, storeVars, decodeVars>>

\* _enforcePolicies has returned to its caller
ActAfterPolicy ==
    /\ op.pc = "policy"
    /\ auth.pc = "done"
    /\ verdict' = [verdict EXCEPT ![op.tabId] =
                      IF auth.result.success THEN "granted" ELSE "denied"]
    /\ op' = IF ~auth.result.success
             THEN Return([op EXCEPT !.failed = IF auth.lookup = "threw"
                                              THEN "policy" ELSE "none"],
                         FALSE, auth.result.error)
             ELSE IF op.kind = "open_url" THEN [op EXCEPT !.pc = "update"]
             ELSE [op EXCEPT !.pc = "inject", !.start = now]
    /\ UNCHANGED <<job, lastInj>>
    /\ UNCHANGED policyVars
    /\ UNCHANGED <<turnVars, streamVars, pageVars, storeVars, decodeVars>>

\* chrome.scripting.executeScript rejects
ActInjectThrows ==
    /\ op.pc = "inject"
    /\ op' = Caught(op, "scripting.executeScript")
    /\ UNCHANGED <<job, verdict, lastInj>>
    /\ UNCHANGED policyVars
    /\ UNCHANGED <<turnVars, streamVars, pageVars, storeVars, decodeVars>>

\* chrome.scripting.executeScript runs the page script; answer is what the
\* script found (the element, the selector, a result object)
ActInject ==
    /\ op.pc = "inject"
    /\ \E answer \in BOOLEAN :
          LET o == [op EXCEPT !.injected = @ + 1, !.found = answer] IN
          /\ op' = IF op.kind \in WaitActions
                   THEN IF answer THEN Return(o, TRUE, Undefined)
                        ELSE [o EXCEPT !.pc = "sleep"]
                   ELSE IF op.kind = "get_page_content"
                   THEN Return(o, TRUE, Undefined)
                   ELSE IF op.kind \in {"click_element", "type_text"}
                   THEN Return(o, answer,
                               IF answer THEN Undefined
                               ELSE IF op.kind = "click_element"
                               THEN "Element not found"
                               ELSE "Element not found or not inputable")
                   ELSE Return(o, answer, Undefined)
          /\ offered' =
                IF answer /\ op.kind = "extractGoogleShoppingOffers"
                THEN GoogleOffers(offers, op.includeUsed, op.maxResults)
                ELSE IF answer /\ op.kind = "extractStoreOffers"
                THEN StoreOffers(offers, op.maxResults)
                ELSE offered
    /\ lastInj' = Injection(op.kind, op.tabId, op.urlRead)
    /\ extracted' = IF op.kind = "get_page_content"
                    THEN Sanitized(page, op.includeForms) ELSE extracted
    /\ UNCHANGED <<job, verdict, page, offers>>
    /\ UNCHANGED policyVars
    /\ UNCHANGED <<turnVars, streamVars, storeVars, decodeVars>>

\* a mutation of LoopGoesOn: the loop is left at its first test
LoopGoesOn_never(elapsed, timeout) == FALSE

\* while (Date.now() - start < timeout)
LoopGoesOn(elapsed, timeout) == elapsed < timeout

\* the sleep of a wait loop and the loop test that follows it; the timer
\* fires after its interval or later
ActSleep ==
    /\ op.pc = "sleep"
    /\ \E d \in {PollInterval(op.kind), op.timeout} :
          /\ d = PollInterval(op.kind) => op.polls < MaxPolls
          /\ now' = now + d
          /\ op' = IF LoopGoesOn(now + d - op.start, op.timeout)
                   THEN [op EXCEPT !.pc = "inject", !.polls = @ + 1]
                   ELSE Return(op, FALSE, TimeoutError(op.kind))
    /\ UNCHANGED <<settings, rateCounter, auth, nAuth, rateLog>>
    /\ UNCHANGED <<job, verdict, lastInj>>
    /\ UNCHANGED <<turnVars, streamVars, pageVars, storeVars, decodeVars>>

\* a mutation of CallOpenUrl: the new-tab branch is not taken
CallOpenUrl_alwaysPolicy(url, newTab) ==
    [OpIdle EXCEPT !.pc = "query", !.kind = "open_url", !.url = url,
                   !.newTab = newTab, !.before = rateCounter]

\* openUrl(url, newTab) up to its first await
CallOpenUrl(url, newTab) ==
    [OpIdle EXCEPT !.pc = IF newTab THEN "create" ELSE "query",
                   !.kind = "open_url", !.url = url, !.newTab = newTab,
                   !.before = rateCounter]

\* chrome.tabs.create / query / update rejects (or query finds no active
\* tab and activeTab.id throws): the catch block of openUrl
OpenThrows ==
    /\ op.pc \in {"create", "query", "update"}
    /\ op' = Caught(op, "tabs." \o op.pc)
    /\ UNCHANGED <<job, verdict, lastInj>>
    /\ UNCHANGED policyVars
    /\ UNCHANGED <<turnVars, streamVars, pageVars, storeVars, decodeVars>>

\* newTab: chrome.tabs.create answers with the new tab; no policy check
OpenCreate ==
    /\ op.pc = "create"
    /\ \E t \in TabIds : op' = Return([op EXCEPT !.openedId = t], TRUE, Undefined)
    /\ UNCHANGED <<job, verdict, lastInj>>
    /\ UNCHANGED policyVars
    /\ UNCHANGED <<turnVars, streamVars, pageVars, storeVars, decodeVars>>

\* chrome.tabs.query answers with the active tab: _enforcePolicies with the
\* URL to open as urlHint
OpenQuery ==
    /\ op.pc = "query"
    /\ \E activeTab \in TabIds :
          /\ op' = [op EXCEPT !.pc = "policy", !.tabId = activeTab]
          /\ BeginPolicy(activeTab, "open_url", op.url, FALSE)
    /\ UNCHANGED <<settings, now>>
    /\ UNCHANGED <<job, verdict, lastInj>>
    /\ UNCHANGED <<turnVars, streamVars, pageVars, storeVars, decodeVars>>

\* chrome.tabs.update answers with the navigated tab
OpenUpdate ==
    /\ op.pc = "update"
    /\ op' = Return([op EXCEPT !.openedId = op.tabId], TRUE, Undefined)
    /\ UNCHANGED <<job, verdict, lastInj>>
    /\ UNCHANGED policyVars
    /\ UNCHANGED <<turnVars, streamVars, pageVars, storeVars, decodeVars>>

\* bound: open_url messages handled one after the other under SpecOpen
MaxOpens == 3

\* the url of an open_url message ("" : none given)
OpenRequestUrls == {"", "https://example.com/a", "https://other.com/", "not a url"}

\* onMessage case "open_url", up to await openUrl(request.url, request.newTab)
StartOpenUrl ==
    /\ job.pc \in {"idle", "done"}
    /\ job.n < MaxOpens
    /\ \E url \in OpenRequestUrls, newTab \in BOOLEAN :
          op' = CallOpenUrl(url, newTab)
    /\ job' = [JobIdle EXCEPT !.pc = "open", !.kind = "open_url", !.n = job.n + 1]
    /\ verdict' = [t \in TabIds |-> "none"]
    /\ lastInj' = NoInjection
    /\ UNCHANGED policyVars
    /\ UNCHANGED <<turnVars, streamVars, pageVars, storeVars, decodeVars>>

\* sendResponse(tab?.success === false ? tab : {success: true, ..., data: tab})
OpenResponds ==
    /\ job.kind = "open_url" /\ job.pc = "open"
    /\ op.pc = "done"
    /\ job' = [Respond(job, op.success, op.error) EXCEPT !.data = op.success]
    /\ UNCHANGED <<op, verdict, lastInj>>
    /\ UNCHANGED policyVars
    /\ UNCHANGED <<turnVars, streamVars, pageVars, storeVars, decodeVars>>

\* what activeTabId / chrome.tabs.query yield (0 : no tab)
ActiveTabs == TabIds \cup {0}

UpcQueries == {"", "012345678905"}

\* onMessage case "upc_lookup", up to await openUrl (newTab unless false)
UpcStart ==
    /\ job.pc = "idle"
    /\ \E query \in UpcQueries, newTab \in BOOLEAN :
          LET j == [JobIdle EXCEPT !.kind = "upc_lookup"] IN
          IF query = ""
          THEN /\ job' = Respond(j, FALSE, "Missing query")
               /\ op' = OpIdle
          ELSE /\ job' = [j EXCEPT !.pc = "open"]
               /\ op' = CallOpenUrl("https://www.upcitemdb.com/upc/" \o query, newTab)
    /\ UNCHANGED <<verdict, lastInj>>
    /\ UNCHANGED policyVars
    /\ UNCHANGED <<turnVars, streamVars, pageVars, storeVars, decodeVars>>

\* openUrl has returned; its result is used for the tab id only.  The target
\* is the opened tab, else the active tab; then waitForAnySelector is called
UpcResolveTarget ==
    /\ job.kind = "upc_lookup" /\ job.pc = "open"
    /\ op.pc = "done"
    /\ \E active \in ActiveTabs :
          LET targetTabId == IF op.openedId # 0 THEN op.openedId ELSE active IN
          IF targetTabId = 0
          THEN /\ job' = Respond(job, FALSE, "Unable to resolve target tab")
               /\ op' = OpIdle
          ELSE /\ job' = [job EXCEPT !.pc = "wait", !.tabId = targetTabId]
               /\ op' = CallAction("wait_for_any_selector", targetTabId, 25000)
    /\ UNCHANGED <<verdict, lastInj>>
    /\ UNCHANGED policyVars
    /\ UNCHANGED <<turnVars, streamVars, pageVars, storeVars, decodeVars>>

\* chrome.tabs.query rejects while the target is resolved: the handler's
\* catch block
UpcResolveThrows ==
    /\ job.kind = "upc_lookup" /\ job.pc = "open"
    /\ op.pc = "done"
    /\ op.openedId = 0
    /\ job' = Respond(job, FALSE, ChromeError)
    /\ UNCHANGED <<op, verdict, lastInj>>
    /\ UNCHANGED policyVars
    /\ UNCHANGED <<turnVars, streamVars, pageVars, storeVars, decodeVars>>

\* waitForAnySelector has returned, its result is dropped; the scraper is
\* injected into the target tab and the response is sent: success is
\* result.success !== false, data is always an array, error is result.error
\* (answer FALSE : the injection yielded no result object)
UpcScrape ==
    /\ job.kind = "upc_lookup" /\ job.pc = "wait"
    /\ op.pc = "done"
    /\ \E answer \in BOOLEAN :
          job' = [Respond(job, answer, Undefined) EXCEPT !.data = TRUE]
    /\ lastInj' = Injection("upc_lookup", job.tabId, Undefined)
    /\ UNCHANGED <<op, verdict>>
    /\ UNCHANGED policyVars
    /\ UNCHANGED <<turnVars, streamVars, pageVars, storeVars, decodeVars>>

\* executeScript of the scraper rejects: the handler's catch block
UpcScrapeThrows ==
    /\ job.kind = "upc_lookup" /\ job.pc = "wait"
    /\ op.pc = "done"
    /\ job' = Respond(job, FALSE, ChromeError)
    /\ UNCHANGED <<op, verdict, lastInj>>
    /\ UNCHANGED policyVars
    /\ UNCHANGED <<turnVars, streamVars, pageVars, storeVars, decodeVars>>

\* the messages ebay_search sends after opening eBay, in order
WaitStep(timeout) == [kind |-> "wait_for_element", timeout |-> timeout]

TypeStep == [kind |-> "type_text", timeout |-> 0]

ClickStep == [kind |-> "click_element", timeout |-> 0]

LabelStep == [kind |-> "clickByLabel", timeout |-> 0]

conditionToPredicate == {"new", "open_box", "ebay_refurbished", "used", "for_parts"}

EbaySteps(soldOnly, condition) ==
    <<WaitStep(20000), TypeStep, WaitStep(15000), ClickStep, WaitStep(25000)>>
    \o (IF soldOnly THEN <<WaitStep(15000), ClickStep, WaitStep(25000)>> ELSE <<>>)
    \o (IF condition \notin {"", "any"}
        THEN <<WaitStep(15000), ClickStep>>
             \o (IF condition \in conditionToPredicate
                 THEN <<WaitStep(15000), LabelStep, WaitStep(25000)>>
                 ELSE <<>>)
        ELSE <<>>)

EbayQueries == {"", "lego 75192"}

EbayConditions == {"", "used", "mint"}

\* executeAutomationFunction case "ebay_search", up to the open_url message
EbayStart ==
    /\ job.pc = "idle"
    /\ \E query \in EbayQueries, newTab \in BOOLEAN, soldOnly \in BOOLEAN,
          condition \in EbayConditions :
          LET j == [JobIdle EXCEPT !.kind = "ebay_search"] IN
          IF query = ""
          THEN /\ job' = Respond(j, FALSE, "Missing query")
               /\ op' = OpIdle
          ELSE /\ job' = [j EXCEPT !.pc = "open",
                                   !.soldOnly = soldOnly,
                                   !.condition = condition,
                                   !.steps = EbaySteps(soldOnly, condition)]
               /\ op' = CallOpenUrl("https://www.ebay.com/", newTab)
    /\ UNCHANGED <<verdict, lastInj>>
    /\ UNCHANGED policyVars
    /\ UNCHANGED <<turnVars, streamVars, pageVars, storeVars, decodeVars>>

\* the response the background sends for the action that has returned
\* (the open_url handler wraps the Tab object that chrome.tabs.create and
\* chrome.tabs.update answer with in { success: true, action: "open_url" })
OpResponse(o) ==
    [success |-> o.success, error |-> o.error, action |-> ActionName(o.kind)]

\* a mutation of StepFailed: the flow goes on after a failed step
StepFailed_ignored(r) == FALSE

\* x?.success === false
StepFailed(r) == ~r.success

\* the flow has received the response r of a step
Received(j, r) ==
    [j EXCEPT !.last = r, !.fails = IF r.success THEN @ ELSE @ + 1]

\* return x
ReturnResult(j, r) ==
    [Respond(j, r.success, r.error) EXCEPT !.action = r.action]

\* the open_url response and getActiveTabId():
\* if (!tabId || open?.success === false) return open
EbayOpened ==
    /\ job.kind = "ebay_search" /\ job.pc = "open"
    /\ op.pc = "done"
    /\ \E tabId \in ActiveTabs :
          LET open == OpResponse(op)
              j == Received(job, open) IN
          job' = IF tabId = 0 \/ StepFailed(open)
                 THEN ReturnResult(j, open)
                 ELSE [j EXCEPT !.pc = "step", !.tabId = tabId, !.step = 1]
    /\ op' = OpIdle
    /\ UNCHANGED <<verdict, lastInj>>
    /\ UNCHANGED policyVars
    /\ UNCHANGED <<turnVars, streamVars, pageVars, storeVars, decodeVars>>

\* the next message of the flow is sent, or the flow returns success
EbayStep ==
    /\ job.kind = "ebay_search" /\ job.pc = "step"
    /\ IF job.step > Len(job.steps)
       THEN /\ job' = Respond(job, TRUE, Undefined)
            /\ op' = OpIdle
       ELSE LET s == job.steps[job.step] IN
            IF s.kind = "clickByLabel"
            THEN /\ job' = [job EXCEPT !.pc = "label"]
                 /\ op' = OpIdle
            ELSE /\ job' = [job EXCEPT !.pc = "await"]
                 /\ op' = CallAction(s.kind, job.tabId,
                                     IF s.kind = "wait_for_element" THEN s.timeout
                                     ELSE 10000)
    /\ UNCHANGED <<verdict, lastInj>>
    /\ UNCHANGED policyVars
    /\ UNCHANGED <<turnVars, streamVars, pageVars, storeVars, decodeVars>>

\* a response arrives: if (x?.success === false) return x
EbayStepDone ==
    /\ job.kind = "ebay_search" /\ job.pc = "await"
    /\ op.pc = "done"
    /\ LET r == OpResponse(op)
           j == Received(job, r) IN
       job' = IF StepFailed(r) THEN ReturnResult(j, r)
              ELSE [j EXCEPT !.pc = "step", !.step = @ + 1]
    /\ UNCHANGED <<op, verdict, lastInj>>
    /\ UNCHANGED policyVars
    /\ UNCHANGED <<turnVars, streamVars, pageVars, storeVars, decodeVars>>

\* the sidepanel injects the condition-label click itself
EbayClickByLabel ==
    /\ job.kind = "ebay_search" /\ job.pc = "label"
    /\ \E found \in BOOLEAN :
          LET condRes == [success |-> found,
                          error |-> IF found THEN Undefined
                                    ELSE "Condition option not found",
                          action |-> Undefined]
              j == Received(job, condRes) IN
          job' = IF StepFailed(condRes)
                 THEN ReturnResult(j, [condRes EXCEPT !.action = "ebay_search"])
                 ELSE [j EXCEPT !.pc = "step", !.step = @ + 1,
                                !.filtered = TRUE]
    /\ lastInj' = Injection("ebay_search", job.tabId, Undefined)
    /\ UNCHANGED <<op, verdict>>
    /\ UNCHANGED policyVars
    /\ UNCHANGED <<turnVars, streamVars, pageVars, storeVars, decodeVars>>

\* executeScript of the label click rejects: the exception leaves the flow
EbayClickByLabelThrows ==
    /\ job.kind = "ebay_search" /\ job.pc = "label"
    /\ job' = Respond(job, FALSE, ChromeError)
    /\ UNCHANGED <<op, verdict, lastInj>>
    /\ UNCHANGED policyVars
    /\ UNCHANGED <<turnVars, streamVars, pageVars, storeVars, decodeVars>>

\* the settings SpecExec loads at startup
ExecWhitelists == {<<>>, <<"example.com">>}

ExecRateLimits == {0, 1}

(***************************************************************************)
(* SpecExec: one operation from its start to its response, in a service    *)
(* worker that has loaded its settings; the operation runs the service     *)
(* actions it calls, and these run _enforcePolicies.                       *)
(***************************************************************************)
NextExec ==
    \/ (job.pc = "idle" /\ LoadSettings(ExecWhitelists, ExecRateLimits))
    \/ StartAction
    \/ ActionResponds
    \/ ActTabsGetThrows
    \/ ActTabsGet
    \/ AuthTabsGetThrows
    \/ AuthTabsGet(ExecUrls, FALSE)
    \/ ActAfterPolicy
    \/ ActInjectThrows
    \/ ActInject
    \/ ActSleep
    \/ OpenThrows
    \/ OpenCreate
    \/ OpenQuery
    \/ OpenUpdate
    \/ UpcStart
    \/ UpcResolveTarget
    \/ UpcResolveThrows
    \/ UpcScrape
    \/ UpcScrapeThrows
    \/ EbayStart
    \/ EbayOpened
    \/ EbayStep
    \/ EbayStepDone
    \/ EbayClickByLabel
    \/ EbayClickByLabelThrows

vars == <<policyVars, turnVars, execVars, streamVars, pageVars, storeVars, decodeVars>>

\* no get_page_content result yet
NoContent ==
    [title |-> "", url |-> "", headings |-> <<>>, text |-> "", forms |-> <<>>,
     hasForms |-> FALSE]

\* an empty document
BlankPage == [title |-> "", url |-> "", headings |-> <<>>, text |-> "", forms |-> <<>>]

\* contexts.get(tabId) of a tab without an entry
NoEntry ==
    [tabId |-> 0, lastUpdated |-> 0, success |-> FALSE, given |-> 0, load |-> 0,
     own |-> NoContent, data |-> NoContent]

\* buildContextSummary(null), and the response before any request; from
\* records the entry a summary was computed from
NoSummary ==
    [null |-> TRUE, from |-> NoEntry, title |-> "", url |-> "", words |-> 0,
     sections |-> 0, keyHeadings |-> <<>>]

StoreInit ==
    /\ contexts = [t \in TabIds |-> NoEntry]
    /\ activeTabId = 0
    /\ refreshing = [t \in TabIds |-> [loads |-> 0, pending |-> {}]]
    /\ closed = {}
    /\ summary = NoSummary

DecodeInit ==
    /\ dpc = "idle"
    /\ body = <<>>
    /\ wire = ""
    /\ buffer = ""
    /\ chunks = <<>>

PageInit ==
    /\ page = BlankPage
    /\ extracted = NoContent
    /\ offers = <<>>
    /\ offered = <<>>


StreamInit ==
    /\ toolsSent = <<>>
    /\ frames = <<>>
    /\ automationEnabled = TRUE

Init ==
    /\ PolicyInit /\ TurnInit /\ ExecInit /\ StreamInit /\ PageInit
    /\ StoreInit /\ DecodeInit

SpecPolicy == Init /\ [][NextPolicy]_vars

SpecRate == Init /\ [][NextRate]_vars

SpecTurn == Init /\ [][NextTurn]_vars

(***************************************************************************)
(* Sidepanel: the stored automation_enabled setting and the tool catalog   *)
(* that handleSend offers to the model.                                    *)
(***************************************************************************)
\* the names of OR.AUTOMATION_FUNCTIONS
AUTOMATION_FUNCTIONS ==
    {"open_url", "ebay_search", "fetch_prices", "upc_lookup", "click_element",
     "type_text", "get_page_content", "wait_for_element", "sheets_read_range",
     "sheets_write_range", "sheets_append_rows", "sheets_append_page_summary"}

\* the names of OR.TODO_FUNCTIONS
TODO_FUNCTIONS ==
    {"todo_create", "todo_list", "todo_update", "todo_set_status", "todo_delete",
     "todo_clear", "todo_summary"}

\* the names of OR.SUMMARIZER_FUNCTIONS
SUMMARIZER_FUNCTIONS ==
    {"summarizer_availability", "summarizer_create", "summarizer_summarize"}

\* lines 366-370: the catalog sent with every request of a turn
toolFns(enabled) ==
    (IF enabled THEN AUTOMATION_FUNCTIONS ELSE {})
    \cup TODO_FUNCTIONS \cup SUMMARIZER_FUNCTIONS

\* chrome.storage.local automation_enabled: absent (<<>>) or a boolean
StoredAutomation == {<<>>, <<TRUE>>, <<FALSE>>}

\* lines 89-91: the stored settings arrive; handleSend reads the state of
\* the render it was called in, so a turn under way keeps its value
LoadAutomationEnabled ==
    /\ tpc = "idle"
    /\ \E stored \in StoredAutomation :
          automationEnabled' = IF stored = <<>> THEN automationEnabled ELSE stored[1]
    /\ UNCHANGED <<toolsSent, frames>>
    /\ UNCHANGED <<policyVars, turnVars, execVars, pageVars, storeVars, decodeVars>>

NextCatalog ==
    \/ LoadAutomationEnabled
    \/ NextTurn

SpecCatalog == Init /\ [][NextCatalog]_vars

SpecStream == Init /\ [][NextStream]_vars

(***************************************************************************)
(* SpecHandleSend: one user turn in either mode, where every await of the  *)
(* turn (gateway call, stream read, dispatched action, credits) resolves   *)
(* or rejects.                                                             *)
(***************************************************************************)
NextHandleSend ==
    \/ NextTurn
    \/ HandleSendStreaming
    \/ StreamLine
    \/ StreamEnds
    \/ StreamThrows

SpecHandleSend ==
    Init /\ [][NextHandleSend]_vars /\ WF_vars(NextHandleSend)

SpecExec == Init /\ [][NextExec]_vars

(***************************************************************************)
(* SpecOpen: open_url messages handled one after the other, after the      *)
(* settings were loaded.                                                   *)
(***************************************************************************)
NextOpen ==
    \/ (job.pc = "idle" /\ LoadSettings(ExecWhitelists, ExecRateLimits))
    \/ StartOpenUrl
    \/ OpenThrows
    \/ OpenCreate
    \/ OpenQuery
    \/ AuthTabsGetThrows
    \/ AuthTabsGet({"https://example.com/", "https://other.com"}, FALSE)
    \/ ActAfterPolicy
    \/ OpenUpdate
    \/ OpenResponds

SpecOpen == Init /\ [][NextOpen]_vars

(***************************************************************************)
(* SpecPoll: the three polling loops.  The program's own steps are fair:   *)
(* a timer set with setTimeout fires, a settled promise resumes its        *)
(* awaiter, the clock moves on, and chrome.tabs.get settles.  Nothing in   *)
(* the code bounds the time chrome.scripting.executeScript takes to        *)
(* settle, so its settling is left to the browser and the page.            *)
(***************************************************************************)
\* the timeouts the callers pass: the defaults and fetch_prices' 25000
WaitTimeouts == {10000, 25000}

OffersTimeouts == {15000, 25000}

\* setTimeout(r, 400) in waitForOffersReady
OffersInterval == 400

OffersTimeoutError == "Timeout waiting for offers"

\* a message asks for wait_for_element, or a flow calls waitForAnySelector
StartWait ==
    /\ job.pc = "idle"
    /\ \E kind \in WaitActions, tabId \in TabIds, timeout \in WaitTimeouts :
          op' = CallAction(kind, tabId, timeout)
    /\ job' = [JobIdle EXCEPT !.pc = "action", !.kind = "action"]
    /\ UNCHANGED <<verdict, lastInj>>
    /\ UNCHANGED policyVars
    /\ UNCHANGED <<turnVars, streamVars, pageVars, storeVars, decodeVars>>

\* extractGoogleShoppingOffers(tabId, {includeUsed,
\* maxResults: Math.max(minCount * 3, 12)}) with minCount 1
OffersPoll(tabId) ==
    [CallAction("extractGoogleShoppingOffers", tabId, 0) EXCEPT !.maxResults = 12]

\* waitForOffersReady(tabId, {minCount: 1, timeout}) is called by caller:
\* start = Date.now(), the first loop test and the first extraction; seen
\* records that a poll started with offers on the page
EnterOffersLoop(j, caller, tabId, timeout) ==
    [j EXCEPT !.pc = "extract", !.kind = "waitForOffersReady",
              !.caller = caller, !.tabId = tabId, !.start = now,
              !.timeout = timeout, !.step = 0, !.seen = offers # <<>>]

OffersStart ==
    /\ job.pc = "idle"
    /\ \E tabId \in TabIds, timeout \in OffersTimeouts :
          /\ job' = EnterOffersLoop(JobIdle, "none", tabId, timeout)
          /\ op' = OffersPoll(tabId)
    /\ UNCHANGED <<verdict, lastInj>>
    /\ UNCHANGED policyVars
    /\ UNCHANGED <<turnVars, streamVars, pageVars, storeVars, decodeVars>>

\* extractGoogleShoppingOffers has returned res; count is res.data.length,
\* one of counts; fails counts the polls that failed for another reason
\* than the rate limit
OffersPolledOf(counts) ==
    /\ job.kind = "waitForOffersReady"
    /\ job.pc = "extract"
    /\ op.pc = "done"
    /\ \E count \in counts :
          job' = IF op.success /\ count >= 1
                 THEN [job EXCEPT !.pc = "done", !.success = TRUE, !.n = count]
                 ELSE [job EXCEPT !.pc = "sleep",
                                  !.n = IF op.success THEN count ELSE @,
                                  !.fails = IF op.success
                                               \/ op.error = "Rate limit exceeded"
                                            THEN @ ELSE @ + 1]
    /\ UNCHANGED <<op, verdict, lastInj>>
    /\ UNCHANGED policyVars
    /\ UNCHANGED <<turnVars, streamVars, pageVars, storeVars, decodeVars>>

\* under SpecPoll a poll finds no offer or one, whatever the page
OffersPolled == OffersPolledOf(0..1)

\* the sleep of waitForOffersReady and the loop test that follows it
OffersSleep ==
    /\ job.kind = "waitForOffersReady"
    /\ job.pc = "sleep"
    /\ \E d \in {OffersInterval, job.timeout} :
          /\ d = OffersInterval => job.step < MaxPolls
          /\ now' = now + d
          /\ IF LoopGoesOn(now + d - job.start, job.timeout)
             THEN /\ job' = [job EXCEPT !.pc = "extract", !.step = @ + 1,
                                        !.seen = @ \/ offers # <<>>]
                  /\ op' = OffersPoll(job.tabId)
             ELSE /\ job' = [job EXCEPT !.pc = "done", !.success = FALSE,
                                        !.error = OffersTimeoutError]
                  /\ UNCHANGED op
    /\ UNCHANGED <<settings, rateCounter, auth, nAuth, rateLog>>
    /\ UNCHANGED <<verdict, lastInj>>
    /\ UNCHANGED <<turnVars, streamVars, pageVars, storeVars, decodeVars>>

\* the loop in progress reads start and timeout of its own method
PollStart == IF job.kind = "waitForOffersReady" THEN job.start ELSE op.start

PollTimeout == IF job.kind = "waitForOffersReady" THEN job.timeout ELSE op.timeout

\* a polling loop awaits chrome.scripting.executeScript
InjectionPending ==
    /\ op.pc = "inject"
    /\ \/ op.kind \in WaitActions
       \/ job.kind = "waitForOffersReady" /\ job.pc = "extract"

\* time passes while the injection round trip is pending
PollClock ==
    /\ InjectionPending
    /\ now - PollStart < PollTimeout
    /\ now' = PollStart + PollTimeout
    /\ UNCHANGED <<settings, rateCounter, auth, nAuth, rateLog>>
    /\ UNCHANGED execVars
    /\ UNCHANGED <<turnVars, streamVars, pageVars, storeVars, decodeVars>>

\* the steps the program and its timers take by themselves
PollOwnSteps ==
    \/ ActionResponds
    \/ ActTabsGetThrows
    \/ ActTabsGet
    \/ AuthTabsGetThrows
    \/ AuthTabsGet(ExecUrls, FALSE)
    \/ ActAfterPolicy
    \/ ActSleep
    \/ OffersPolled
    \/ OffersSleep
    \/ PollClock

\* the injection round trip settles
InjectionSettles ==
    \/ ActInject
    \/ ActInjectThrows

NextPoll ==
    \/ (job.pc = "idle" /\ LoadSettings(ExecWhitelists, ExecRateLimits))
    \/ StartWait
    \/ OffersStart
    \/ ActionResponds
    \/ ActTabsGetThrows
    \/ ActTabsGet
    \/ AuthTabsGetThrows
    \/ AuthTabsGet(ExecUrls, FALSE)
    \/ ActAfterPolicy
    \/ ActInjectThrows
    \/ ActInject
    \/ ActSleep
    \/ OffersPolled
    \/ OffersSleep
    \/ PollClock

SpecPoll == Init /\ [][NextPoll]_vars /\ WF_vars(PollOwnSteps)

\* the same loops with a browser whose every injection round trip settles
SpecPollSettling == SpecPoll /\ WF_vars(InjectionSettles)

(***************************************************************************)
(* SpecFetch: the Google Shopping flow of fetch_prices on a results page   *)
(* that renders its offers at some moment and keeps them.                  *)
(***************************************************************************)
\* the offers a results page renders: all with a title and a price, none used
RenderedOffers ==
    {<<[title |-> "tv", priceValue |-> 30, isUsed |-> FALSE],
       [title |-> "tv", priceValue |-> 20, isUsed |-> FALSE]>>}

\* the results page renders its offers while the flow runs
OffersRender ==
    /\ job.caller = "fetch_prices" /\ job.pc # "done"
    /\ offers = <<>>
    /\ offers' \in RenderedOffers
    /\ UNCHANGED <<page, extracted, offered>>
    /\ UNCHANGED <<policyVars, turnVars, execVars, streamVars, storeVars, decodeVars>>

\* the sources lists a fetch_prices tool call may carry (none: an empty list)
SourceLists == {<<>>, <<"amazon", "walmart">>}

\* executeAutomationFunction case "fetch_prices": the message sent to the
\* background has the fields query, maxResults, newTab and includeUsed
FetchPricesMessage(params) ==
    [action |-> "fetch_prices", query |-> params.query,
     maxResults |-> params.maxResults, newTab |-> params.newTab,
     includeUsed |-> params.includeUsed, sources |-> NoArray]

\* const sources = Array.isArray(request.sources) ? request.sources : []
RequestSources(request) ==
    IF request.sources.isArray THEN request.sources.items ELSE <<>>

\* the model calls fetch_prices with a query: executeAutomationFunction sends
\* the message, and onMessage case "fetch_prices" runs up to its first await
\* (openUrl(searchUrl, request.newTab !== false) in the Google Shopping flow;
\* the multi-store flow is entered only)
FetchStart ==
    /\ job.pc = "idle"
    /\ \E newTab \in BOOLEAN, maxResults \in {1}, asked \in SourceLists :
          LET request == FetchPricesMessage(
                            [query |-> "tv", maxResults |-> maxResults,
                             newTab |-> newTab, includeUsed |-> FALSE,
                             sources |-> asked, maxPerSource |-> 3])
              sources == RequestSources(request)
              j == [JobIdle EXCEPT !.kind = "fetch_prices",
                                   !.caller = "fetch_prices",
                                   !.maxResults = request.maxResults,
                                   !.asked = asked, !.sources = sources]
          IN  IF Len(sources) = 0
              THEN /\ job' = [j EXCEPT !.pc = "open", !.flow = "google"]
                   /\ op' = CallOpenUrl("https://www.google.com/search?tbm=shop&q=tv",
                                        request.newTab)
              ELSE /\ job' = [j EXCEPT !.pc = "stores", !.flow = "stores"]
                   /\ op' = OpIdle
    /\ UNCHANGED <<verdict, lastInj>>
    /\ UNCHANGED policyVars
    /\ UNCHANGED <<turnVars, streamVars, pageVars, storeVars, decodeVars>>

\* openUrl has returned: targetTabId is open.id, else the active tab; with
\* none the handler responds, otherwise it calls waitForAnySelector
FetchOpened ==
    /\ job.kind = "fetch_prices" /\ job.pc = "open"
    /\ op.pc = "done"
    /\ \E active \in ActiveTabs :
          LET targetTabId == IF op.success THEN op.openedId ELSE active IN
          IF targetTabId = 0
          THEN /\ job' = Respond(job, FALSE, "Unable to resolve target tab")
               /\ op' = OpIdle
          ELSE /\ job' = [job EXCEPT !.pc = "waitAny", !.tabId = targetTabId]
               /\ op' = CallAction("wait_for_any_selector", targetTabId, 25000)
    /\ UNCHANGED <<verdict, lastInj>>
    /\ UNCHANGED policyVars
    /\ UNCHANGED <<turnVars, streamVars, pageVars, storeVars, decodeVars>>

\* waitForAnySelector has returned (its result is not looked at): the
\* handler calls waitForOffersReady(targetTabId, {minCount: 1, timeout: 25000})
FetchWaited ==
    /\ job.kind = "fetch_prices" /\ job.pc = "waitAny"
    /\ op.pc = "done"
    /\ job' = EnterOffersLoop(job, "fetch_prices", job.tabId, 25000)
    /\ op' = OffersPoll(job.tabId)
    /\ UNCHANGED <<verdict, lastInj>>
    /\ UNCHANGED policyVars
    /\ UNCHANGED <<turnVars, streamVars, pageVars, storeVars, decodeVars>>

\* waitForOffersReady has returned (its result is not looked at): the
\* handler calls extractGoogleShoppingOffers with the request's maxResults
FetchExtract ==
    /\ job.kind = "waitForOffersReady" /\ job.caller = "fetch_prices"
    /\ job.pc = "done"
    /\ job' = [job EXCEPT !.kind = "fetch_prices", !.pc = "final",
                          !.ready = IF job.success THEN "success" ELSE "timeout",
                          !.success = TRUE, !.error = Undefined]
    /\ op' = [CallAction("extractGoogleShoppingOffers", job.tabId, 0)
                 EXCEPT !.maxResults = job.maxResults]
    /\ UNCHANGED <<verdict, lastInj>>
    /\ UNCHANGED policyVars
    /\ UNCHANGED <<turnVars, streamVars, pageVars, storeVars, decodeVars>>

\* sendResponse({ success: offers?.success !== false, data, error })
FetchResponds ==
    /\ job.kind = "fetch_prices" /\ job.pc = "final"
    /\ op.pc = "done"
    /\ job' = Respond(job, op.success, op.error)
    /\ UNCHANGED <<op, verdict, lastInj>>
    /\ UNCHANGED policyVars
    /\ UNCHANGED <<turnVars, streamVars, pageVars, storeVars, decodeVars>>

NextFetch ==
    \/ (job.pc = "idle" /\ LoadSettings({<<>>}, ExecRateLimits))
    \/ FetchStart
    \/ OpenThrows
    \/ OpenCreate
    \/ OpenQuery
    \/ OpenUpdate
    \/ FetchOpened
    \/ OffersRender
    \/ ActTabsGetThrows
    \/ ActTabsGet
    \/ AuthTabsGetThrows
    \/ AuthTabsGet({"https://www.google.com/search?tbm=shop&q=tv"}, FALSE)
    \/ ActAfterPolicy
    \/ ActInjectThrows
    \/ ActInject
    \/ ActSleep
    \/ FetchWaited
    \/ OffersPolledOf({Len(offered)})
    \/ OffersSleep
    \/ FetchExtract
    \/ FetchResponds

SpecFetch == Init /\ [][NextFetch]_vars

(***************************************************************************)
(* SpecContent: a page loads in the tab and one get_page_content message   *)
(* extracts it.                                                            *)
(***************************************************************************)
\* bound: pieces a page text is made of
MaxPieces == 3

\* bound: form controls of a page
MaxForms == 2

TextPieces == {"1234567", "12345", "a", "_", " ", "@", "x@y.co", "."}

RECURSIVE Concat(_)
Concat(ps) == IF ps = <<>> THEN "" ELSE Head(ps) \o Concat(Tail(ps))

\* document.body.innerText of the pages explored
PageTexts ==
    {Concat(ps) : ps \in UNION {[1..n -> TextPieces] : n \in 0..MaxPieces}}

\* one input, textarea or select as the page script describes it
FormFields ==
    [type : {"text", "Password"}, name : {"q", "authToken"},
     value : {"", "hunter2"}]

PageForms == UNION {[1..n -> FormFields] : n \in 0..MaxForms}

Pages ==
    {[BlankPage EXCEPT !.title = "Doc", !.url = "https://example.com/",
                       !.text = t] : t \in PageTexts}
       \cup {[BlankPage EXCEPT !.title = "Doc", !.url = "https://example.com/",
                               !.text = "call 1234567", !.forms = f] :
                 f \in PageForms}

\* the blank tab shows one of the documents pages before the extraction is
\* asked for
LoadPage(pages) ==
    /\ job.pc = "idle"
    /\ page = BlankPage
    /\ page' \in pages
    /\ UNCHANGED <<extracted, offers, offered>>
    /\ UNCHANGED <<policyVars, turnVars, execVars, streamVars, storeVars, decodeVars>>

PageLoads == LoadPage(Pages)

\* a get_page_content message: getPageContent(request.tabId, request.includeForms)
StartGetPageContent ==
    /\ job.pc = "idle"
    /\ \E tabId \in TabIds, includeForms \in BOOLEAN :
          op' = [CallAction("get_page_content", tabId, 0)
                    EXCEPT !.includeForms = includeForms]
    /\ job' = [JobIdle EXCEPT !.pc = "action", !.kind = "action"]
    /\ UNCHANGED <<verdict, lastInj>>
    /\ UNCHANGED policyVars
    /\ UNCHANGED <<turnVars, streamVars, pageVars, storeVars, decodeVars>>

NextContent ==
    \/ PageLoads
    \/ StartGetPageContent
    \/ ActTabsGetThrows
    \/ ActTabsGet
    \/ AuthTabsGetThrows
    \/ AuthTabsGet({"https://example.com/"}, FALSE)
    \/ ActAfterPolicy
    \/ ActInjectThrows
    \/ ActInject
    \/ ActionResponds

SpecContent == Init /\ [][NextContent]_vars

(***************************************************************************)
(* SpecOffers: a results page shows its product cards and one offer        *)
(* extraction reads them.                                                  *)
(***************************************************************************)
\* bound: product cards of a results page
MaxOffers == 3

\* the cards explored: title, parsed price, used/refurbished mark
OfferItems ==
    {[title |-> "tv", priceValue |-> p, isUsed |-> FALSE] : p \in {Null, 0, 10, 20, 30}}
       \cup {[title |-> "tv", priceValue |-> 10, isUsed |-> TRUE],
             [title |-> "", priceValue |-> 20, isUsed |-> FALSE]}

OfferLists == UNION {[1..n -> OfferItems] : n \in 0..MaxOffers}

\* the blank tab shows a results page
OffersLoad ==
    /\ job.pc = "idle"
    /\ offers = <<>>
    /\ offers' \in OfferLists
    /\ UNCHANGED <<page, extracted, offered>>
    /\ UNCHANGED <<policyVars, turnVars, execVars, streamVars, storeVars, decodeVars>>

\* extractGoogleShoppingOffers(tabId, {includeUsed, maxResults}) or
\* extractStoreOffers(tabId, source, {maxResults}) is called
StartExtractOffers ==
    /\ job.pc = "idle"
    /\ \E kind \in {"extractGoogleShoppingOffers", "extractStoreOffers"},
          includeUsed \in BOOLEAN, maxResults \in 1..2 :
          op' = [CallAction(kind, 1, 0) EXCEPT !.includeUsed = includeUsed,
                                               !.maxResults = maxResults]
    /\ job' = [JobIdle EXCEPT !.pc = "action", !.kind = "action"]
    /\ UNCHANGED <<verdict, lastInj>>
    /\ UNCHANGED policyVars
    /\ UNCHANGED <<turnVars, streamVars, pageVars, storeVars, decodeVars>>

NextOffers ==
    \/ OffersLoad
    \/ StartExtractOffers
    \/ ActTabsGetThrows
    \/ ActTabsGet
    \/ AuthTabsGetThrows
    \/ AuthTabsGet({"https://example.com/"}, FALSE)
    \/ ActAfterPolicy
    \/ ActInjectThrows
    \/ ActInject
    \/ ActionResponds

SpecOffers == Init /\ [][NextOffers]_vars

(***************************************************************************)
(* SpecStore: the Tab Context Store under the tab events.  A tab id is     *)
(* not given to another tab once its tab has closed.                       *)
(***************************************************************************)
\* bound: onUpdated handlers of one tab that await their extraction
MaxRefreshing == 2
\* bound: load events of one tab
MaxLoads == 2

\* the contexts handed to updateTabContext: an ActionResult of
\* getPageContent (no tabId field, written 0) or an object that carries one
ContextsGiven ==
    [success : BOOLEAN, tabId : {0} \cup TabIds, load : {0}, own : {NoContent},
     data : {NoContent}]

\* a mutation of UpdatedEntry: the fields of the context are spread last
UpdatedEntry_spreadLast(tabId, context, t) ==
    [tabId |-> IF context.tabId # 0 THEN context.tabId ELSE tabId,
     lastUpdated |-> t, success |-> context.success, given |-> context.tabId,
     load |-> context.load, own |-> context.own, data |-> context.data]

\* { ...context, lastUpdated: Date.now(), tabId: tabId }; given records
\* the tabId field the context came with, load the load event whose handler
\* extracted it (0: none); own holds the title, url, text and headings
\* fields of the context itself, data what it carries under data
UpdatedEntry(tabId, context, t) ==
    [tabId |-> tabId, lastUpdated |-> t, success |-> context.success,
     given |-> context.tabId, load |-> context.load, own |-> context.own,
     data |-> context.data]

\* tabContextManager.updateTabContext(tabId, context)
UpdateTabContext ==
    /\ \E tabId \in TabIds, context \in ContextsGiven :
          contexts' = [contexts EXCEPT ![tabId] = UpdatedEntry(tabId, context, now)]
    /\ UNCHANGED <<activeTabId, refreshing, closed, summary>>
    /\ UNCHANGED <<policyVars, turnVars, execVars, streamVars, pageVars, decodeVars>>

\* tabs.onUpdated with status complete and an injectable URL: the handler
\* runs up to await webAutomationService.getPageContent(tabId)
TabUpdated ==
    /\ \E tabId \in TabIds \ closed :
          /\ Cardinality(refreshing[tabId].pending) < MaxRefreshing
          /\ refreshing[tabId].loads < MaxLoads
          /\ refreshing' = [refreshing EXCEPT ![tabId] =
                                [loads |-> @.loads + 1,
                                 pending |-> @.pending \cup {@.loads + 1}]]
    /\ UNCHANGED <<contexts, activeTabId, closed, summary>>
    /\ UNCHANGED <<policyVars, turnVars, execVars, streamVars, pageVars, decodeVars>>

\* getPageContent has returned to one of the awaiting handlers (in no fixed
\* order) its result, a success or a failure (it catches what it throws):
\* the handler stores it
RefreshDone ==
    /\ \E tabId \in TabIds, ok \in BOOLEAN :
       \E load \in refreshing[tabId].pending :
          /\ refreshing' = [refreshing EXCEPT ![tabId].pending = @ \ {load}]
          /\ contexts' = [contexts EXCEPT ![tabId] =
                             UpdatedEntry(tabId,
                                          [success |-> ok, tabId |-> 0,
                                           load |-> load, own |-> NoContent,
                                           data |-> NoContent], now)]
    /\ UNCHANGED <<activeTabId, closed, summary>>
    /\ UNCHANGED <<policyVars, turnVars, execVars, streamVars, pageVars, decodeVars>>

\* tabs.onRemoved: tabContextManager.removeTabContext(tabId)
TabRemoved ==
    /\ \E tabId \in TabIds \ closed :
          /\ contexts' = [contexts EXCEPT ![tabId] = NoEntry]
          /\ closed' = closed \cup {tabId}
    /\ UNCHANGED <<activeTabId, refreshing, summary>>
    /\ UNCHANGED <<policyVars, turnVars, execVars, streamVars, pageVars, decodeVars>>

\* tabs.onActivated
TabActivated ==
    /\ \E tabId \in TabIds \ closed : activeTabId' = tabId
    /\ UNCHANGED <<contexts, refreshing, closed, summary>>
    /\ UNCHANGED <<policyVars, turnVars, execVars, streamVars, pageVars, decodeVars>>

\* the listeners only: the store is written by onUpdated and onRemoved
NextTabEvents ==
    \/ TabUpdated
    \/ RefreshDone
    \/ TabRemoved
    \/ TabActivated
    \/ Tick

SpecTabEvents == Init /\ [][NextTabEvents]_vars

\* the listeners and direct calls of updateTabContext
NextStore ==
    \/ UpdateTabContext
    \/ TabUpdated
    \/ RefreshDone
    \/ TabRemoved
    \/ TabActivated

SpecStore == Init /\ [][NextStore]_vars

(***************************************************************************)
(* SpecSummary: the automatic refresh of a tab runs getPageContent and     *)
(* stores its result; the summaries are computed from the stored entries.  *)
(***************************************************************************)
WhiteSpace == {" ", "\n"}

\* text.split(/\s+/): the pieces between the runs of white space
RECURSIVE SplitWhiteSpace(_, _, _)
SplitWhiteSpace(s, k, piece) ==
    IF k > Len(s) THEN <<piece>>
    ELSE IF CharAt(s, k) \in WhiteSpace
         THEN IF k > 1 /\ CharAt(s, k - 1) \in WhiteSpace
              THEN SplitWhiteSpace(s, k + 1, piece)
              ELSE <<piece>> \o SplitWhiteSpace(s, k + 1, "")
         ELSE SplitWhiteSpace(s, k + 1, piece \o CharAt(s, k))

\* context.text || context.content || ""
ContextText(context) == context.own.text

\* buildContextSummary(context), excerpt and score left out; the contexts
\* modelled carry no metadata
buildContextSummary(context) ==
    IF context = NoEntry THEN NoSummary
    ELSE LET text == ContextText(context)
             headings == context.own.headings
         IN  [null |-> FALSE, from |-> context,
              title |-> context.own.title,
              url |-> context.own.url,
              words |-> IF text # ""
                        THEN Len(SelectSeq(SplitWhiteSpace(text, 1, ""),
                                           LAMBDA p : p # ""))
                        ELSE 0,
              sections |-> Len(headings),
              keyHeadings |-> SubSeq(headings, 1,
                                     IF Len(headings) < 5 THEN Len(headings) ELSE 5)]

\* document.body.innerText and the headings of the pages explored
SummaryTexts == {"", "a b", " a  b\nc "}

SummaryHeadings == {<<>>, <<"Intro", "More">>}

SummaryPages ==
    {[BlankPage EXCEPT !.title = "Doc", !.url = "https://example.com/",
                       !.text = t, !.headings = h] :
        t \in SummaryTexts, h \in SummaryHeadings}

\* tabs.onUpdated with status complete and an injectable URL: the handler
\* runs up to the first await of getPageContent(tabId)
TabUpdatedExtracts ==
    /\ job.pc = "idle"
    /\ \E tabId \in TabIds \ closed :
          /\ refreshing[tabId].loads < MaxLoads
          /\ refreshing' = [refreshing EXCEPT ![tabId] =
                                [loads |-> @.loads + 1,
                                 pending |-> @.pending \cup {@.loads + 1}]]
          /\ op' = CallAction("get_page_content", tabId, 0)
          /\ job' = [JobIdle EXCEPT !.pc = "refresh", !.kind = "refresh",
                                    !.tabId = tabId,
                                    !.n = refreshing[tabId].loads + 1]
    /\ UNCHANGED <<verdict, lastInj>>
    /\ UNCHANGED <<contexts, activeTabId, closed, summary>>
    /\ UNCHANGED <<policyVars, turnVars, streamVars, pageVars, decodeVars>>

\* the ActionResult of getPageContent as a context: its title, url, text
\* and headings are under data
ResultContext(o, data, load) ==
    [success |-> o.success, tabId |-> 0, load |-> load, own |-> NoContent,
     data |-> IF o.success THEN data ELSE NoContent]

\* getPageContent has returned: updateTabContext(tabId, context)
RefreshStores ==
    /\ job.pc = "refresh"
    /\ op.pc = "done"
    /\ contexts' = [contexts EXCEPT ![job.tabId] =
                       UpdatedEntry(job.tabId,
                                    ResultContext(op, extracted, job.n), now)]
    /\ refreshing' = [refreshing EXCEPT ![job.tabId].pending = @ \ {job.n}]
    /\ job' = JobIdle
    /\ op' = OpIdle
    /\ UNCHANGED <<verdict, lastInj>>
    /\ UNCHANGED <<activeTabId, closed, summary>>
    /\ UNCHANGED <<policyVars, turnVars, streamVars, pageVars, decodeVars>>

\* onMessage case "get_active_context_summary"
GetActiveContextSummary ==
    /\ job.pc = "idle"
    /\ summary' = IF activeTabId # 0
                  THEN buildContextSummary(contexts[activeTabId])
                  ELSE NoSummary
    /\ UNCHANGED <<contexts, activeTabId, refreshing, closed>>
    /\ UNCHANGED <<policyVars, turnVars, execVars, streamVars, pageVars, decodeVars>>

NextSummary ==
    \/ LoadPage(SummaryPages)
    \/ TabUpdatedExtracts
    \/ ActTabsGetThrows
    \/ ActTabsGet
    \/ AuthTabsGetThrows
    \/ AuthTabsGet({"https://example.com/"}, FALSE)
    \/ ActAfterPolicy
    \/ ActInjectThrows
    \/ ActInject
    \/ RefreshStores
    \/ (job.pc = "idle" /\ TabActivated)
    \/ GetActiveContextSummary

SpecSummary == Init /\ [][NextSummary]_vars

(***************************************************************************)
(* SpecDecode: chatWithStreaming decodes a response body that reader.read  *)
(* hands out in pieces of any size.                                        *)
(***************************************************************************)
\* bound: lines of a response body
MaxLines == 2

\* the lines a body is made of: content frames, a usage frame without
\* choices, a frame whose JSON is cut, the sentinel, an empty line
BodyLines == {"data: {a}", "data: {b}", "data: {u}", "data: {a", "data: [DONE]", ""}

\* JSON.parse(data), then chunk.choices && chunk.choices[0]: the choice of
\* the frame, "" when it parses without one, Undefined when parsing throws
ParseChoice(data) ==
    CASE data = "{a}" -> "a"
      [] data = "{b}" -> "b"
      [] data = "{u}" -> ""
      [] OTHER -> Undefined

\* buffer.split("\n")
RECURSIVE SplitLines(_)
SplitLines(s) ==
    LET k == IndexFrom(s, "\n", 1) IN
    IF k = 0 THEN <<s>>
    ELSE <<SubSeq(s, 1, k - 1)>> \o SplitLines(SubSeq(s, k + 1, Len(s)))

\* a mutation of Kept: the incomplete line is thrown away
Kept_dropped(parts) == ""

\* buffer = lines.pop()
Kept(parts) == parts[Len(parts)]

\* for (const line of lines) { ... }: the onChunk calls made, and whether
\* data: [DONE] made the function return
RECURSIVE ProcessLines(_, _)
ProcessLines(lines, calls) ==
    IF lines = <<>> THEN [calls |-> calls, returned |-> FALSE]
    ELSE LET line == Head(lines) IN
         IF startsWith(line, "data: ")
         THEN LET data == SubSeq(line, 7, Len(line)) IN
              IF data = "[DONE]" THEN [calls |-> calls, returned |-> TRUE]
              ELSE ProcessLines(Tail(lines),
                                IF ParseChoice(data) \in {Undefined, ""} THEN calls
                                ELSE Append(calls, ParseChoice(data)))
         ELSE ProcessLines(Tail(lines), calls)

\* each line of the body followed by its newline
RECURSIVE Wire(_)
Wire(ls) == IF ls = <<>> THEN "" ELSE Head(ls) \o "\n" \o Wire(Tail(ls))

\* the response arrives: response.body.getReader()
StreamOpens ==
    /\ dpc = "idle"
    /\ \E ls \in UNION {[1..n -> BodyLines] : n \in 0..MaxLines} :
          /\ body' = ls
          /\ wire' = Wire(ls)
    /\ dpc' = "reading"
    /\ UNCHANGED <<buffer, chunks>>
    /\ UNCHANGED <<policyVars, turnVars, execVars, streamVars, pageVars, storeVars>>

\* reader.read() hands out the next k characters: one turn of the loop
ReaderRead ==
    /\ dpc = "reading"
    /\ wire # ""
    /\ \E k \in 1..Len(wire) :
          LET parts == SplitLines(buffer \o SubSeq(wire, 1, k))
              r == ProcessLines(SubSeq(parts, 1, Len(parts) - 1), chunks)
          IN /\ wire' = SubSeq(wire, k + 1, Len(wire))
             /\ buffer' = Kept(parts)
             /\ chunks' = r.calls
             /\ dpc' = IF r.returned THEN "returned" ELSE "reading"
    /\ UNCHANGED body
    /\ UNCHANGED <<policyVars, turnVars, execVars, streamVars, pageVars, storeVars>>

\* reader.read() answers done: the loop is left
ReaderDone ==
    /\ dpc = "reading"
    /\ wire = ""
    /\ dpc' = "returned"
    /\ UNCHANGED <<body, wire, buffer, chunks>>
    /\ UNCHANGED <<policyVars, turnVars, execVars, streamVars, pageVars, storeVars>>

NextDecode ==
    \/ StreamOpens
    \/ ReaderRead
    \/ ReaderDone

SpecDecode == Init /\ [][NextDecode]_vars

\* C11: openUrl with newTab creates the tab without calling Policy Guard: its
\* only failure is a rejected browser call, never a domain or rate-limit
\* rejection, and it leaves every tab's rate window as it was; without
\* newTab it runs Policy Guard on the active tab and calls chrome.tabs.update
\* only after Policy Guard returned success for that tab.
C11_OpenUrlPolicy ==
    /\ []((op.kind = "open_url" /\ op.newTab) =>
            /\ op.pc \in {"create", "done"}
            /\ (op.pc = "done" /\ ~op.success) => op.error = ChromeError)
    /\ []((op.kind = "open_url" /\ ~op.newTab) =>
            /\ op.pc = "policy" => auth.tabId = op.tabId /\ auth.actionName = "open_url"
            /\ (op.pc = "update" \/ op.openedId # 0) =>
                  (op.tabId \in TabIds /\ verdict[op.tabId] = "granted")
            /\ (op.pc = "done" /\ op.tabId \in TabIds /\ verdict[op.tabId] = "denied") =>
                  (~op.success /\ op.openedId = 0))
    /\ [][(op.kind = "open_url" /\ op.newTab /\ op.pc = "create")
            => (rateCounter' = rateCounter /\ nAuth' = nAuth /\ auth' = auth)]_vars

C11_Witness ==
    /\ op.kind = "open_url" /\ op.newTab /\ op.pc = "done" /\ op.success
    /\ op.url = "https://other.com/"
    /\ ~settings.allowAllAutomation
    /\ settings.domainWhitelist = <<"example.com">>
    /\ settings.rateLimitPer30s = 1
    /\ \E t \in DOMAIN rateCounter : rateCounter[t].count > 1

(***************************************************************************)
(* Automation Executor: script injection.                                  *)
(***************************************************************************)
IsWebUrl(url) == startsWith(url, "http://") \/ startsWith(url, "https://")

\* C9: every page script that runs in a tab (by an action, by the upc_lookup
\* scraper, by the ebay_search label click) runs after Policy Guard
\* authorized an action on that tab within the same operation: never after
\* a rejection, never without a policy check.
C9_ScriptsAfterPolicy ==
    lastInj.site # "none" => lastInj.verdict = "granted"

\* C12: every result handed back for an automation action has a boolean
\* success, and a result with success false carries a non-empty string error
\* and no data field.
C12_ActionResultShape ==
    (job.pc = "done" /\ ~job.success)
    => (job.error # Undefined /\ job.error # "" /\ ~job.data)

C19_WaitForElementTimeout ==
    (op.kind = "wait_for_element" /\ op.pc = "done") =>
       /\ op.error = "Timeout waiting for element" =>
             (now - op.start >= op.timeout /\ ~op.found)
       /\ op.success => (op.found /\ op.injected > 0)
       /\ (~op.found /\ op.injected > 0 /\ op.failed = "none") =>
             (~op.success /\ op.error = "Timeout waiting for element"
                /\ now - op.start >= op.timeout)

C19_Witness ==
    /\ op.kind = "wait_for_element" /\ op.pc = "done"
    /\ op.error = "Timeout waiting for element"
    /\ op.injected = 2
    /\ now - op.start = 200 + op.timeout

\* C10: the seven injecting actions run a page script only when the tab URL
\* they read at their start begins with http:// or https://; for any other
\* URL they return success:false and inject nothing.
C10_InjectOnlyWeb ==
    /\ lastInj.site \in InjectingActions => IsWebUrl(lastInj.urlRead)
    /\ (op.kind \in InjectingActions /\ op.lookup = "tab" /\ ~IsWebUrl(op.urlRead))
       => (op.pc = "done" /\ ~op.success /\ op.injected = 0)
    /\ (op.kind \in InjectingActions /\ op.injected > 0) => IsWebUrl(op.urlRead)

C10_Witness ==
    /\ op.kind = "wait_for_any_selector" /\ op.pc = "done"
    /\ op.urlRead = "chrome://extensions"
    /\ ~op.success /\ op.injected = 0
    /\ op.error = "Restricted page. Cannot wait for selectors."

(***************************************************************************)
(* Tool-calling orchestrator: the round-trip loop.                         *)
(***************************************************************************)
HasToolCalls(r) == r.hasMsg /\ Len(ToolCallsOf(r.msg)) > 0

IsFinalAnswer(r) == r.hasMsg /\ Len(ToolCallsOf(r.msg)) = 0

FunctionMessages(c) == SelectSeq(c, LAMBDA m : m.role = "function")

Starts == SelectSeq(events, LAMBDA e : e.ev = "start")

LastMessage == messages[Len(messages)]

\* C1: a turn issues at most 3 chat requests, whatever the model answers;
\* after three tool-call-only responses no 4th request is sent.
C1_AtMostThreeRequests ==
    /\ Len(sent) <= 3
    /\ Len(responses) <= Len(sent)

C1_Witness ==
    /\ tpc = "done"
    /\ i = 3
    /\ Len(sent) = 3
    /\ Len(responses) = 3
    /\ \A r \in 1..3 : HasToolCalls(responses[r])

\* C2: when the first response carries k >= 1 tool calls and the second is a
\* message without tool calls, exactly k actions were dispatched, the second
\* request carried exactly k function-role messages, 2 requests were made and
\* the turn ends with the second response's content as the last message.
C2_ToolThenFinal ==
    (Len(responses) >= 2 /\ HasToolCalls(responses[1]) /\ IsFinalAnswer(responses[2]))
    => LET k == Len(ToolCallsOf(responses[1].msg)) IN
       /\ Len(Starts) = k
       /\ Len(FunctionMessages(sent[2])) = k
       /\ Len(sent) = 2
       /\ Len(responses) = 2
       /\ tpc \in {"credits", "done"}
       /\ LastMessage = Visible("answer", responses[2].msg.content)

C2_Witness ==
    /\ tpc = "done"
    /\ Len(responses) = 2
    /\ Len(ToolCallsOf(responses[1].msg)) = 3
    /\ IsFinalAnswer(responses[2])
    /\ LastMessage.content = "Here you go."

\* C3: when the cap is reached without a final answer, an assistant message
\* holding the content of the last model response ends the visible conversation.
C3_CapSurfacesLastContent ==
    (tpc = "done" /\ i = 3 /\ Len(responses) = 3)
    => LastMessage = Visible("answer", responses[3].msg.content)

\* C4: the calls of a batch are dispatched one at a time in the order the
\* model emitted them - a call starts only after the call before it has
\* returned - and the function-role messages keep that order.
C4_SequentialDispatch ==
    /\ Cardinality(inFlight) <= 1
    /\ \A p \in 1..Len(events) :
          (events[p].ev = "start" /\ events[p].idx > 1)
          => /\ p > 1
             /\ events[p - 1] =
                  [ev |-> "return", round |-> events[p].round, idx |-> events[p].idx - 1]
    /\ LET f == FunctionMessages(convo) IN
       /\ Len(f) <= Len(emitted)
       /\ \A k \in 1..Len(f) : f[k].name = emitted[k].name

C4_Witness ==
    /\ Len(FunctionMessages(convo)) >= 3
    /\ \E p \in 1..Len(events) : events[p].ev = "return" /\ events[p].idx = 3

\* C14: a malformed arguments payload (invalid JSON, missing or empty, or
\* JSON that is not an object such as null) never aborts the turn: the call
\* is dispatched as with an empty argument object and answered by a function
\* message, so a turn never ends on the dispatch of a call.
C14_MalformedArgsTolerated ==
    (tpc = "done" /\ Len(events) > 0)
    => events[Len(events)].ev \in {"return", "threw"}

(***************************************************************************)
(* Streaming mode.                                                         *)
(***************************************************************************)
\* the content deltas of a sequence of stream events, concatenated in order
RECURSIVE Concatenated(_)
Concatenated(fs) ==
    IF fs = <<>> THEN ""
    ELSE LET f == Head(fs) IN
         (IF f.isData /\ f.parses /\ f.hasChoice THEN f.content ELSE "")
         \o Concatenated(Tail(fs))

\* C15: a streaming turn sends no tool schemas and dispatches nothing,
\* whatever the stream delivers; the conversation gains the user message and
\* one draft assistant message whose content is the content deltas in
\* arrival order (and the error message when the gateway call fails).
C15_StreamingNoTools ==
    tpc # "idle" =>
       /\ toolsSent = <<"null">>
       /\ events = <<>> /\ emitted = <<>> /\ inFlight = {} /\ batch = <<>>
       /\ Len(messages) >= 2
       /\ messages[1].role = "user"
       /\ messages[2] = Visible("draft", Concatenated(frames))
       /\ \/ Len(messages) = 2
          \/ Len(messages) = 3 /\ tpc = "done" /\ messages[3].kind = "error"

C15_Witness ==
    /\ tpc = "done"
    /\ frames = <<ContentFrame("Hel"), ToolCallFrame, ContentFrame("lo")>>
    /\ messages[2].content = "Hello"
    /\ Len(messages) = 2

(***************************************************************************)
(* Tool-calling orchestrator: failures and termination.                    *)
(***************************************************************************)
\* the turn ended on a gateway request that got no response
GatewayFailed == tpc = "done" /\ Len(sent) = Len(responses) + 1

ErrorMessages == {m \in 1..Len(messages) : messages[m].kind = "error"}

\* C16: when a gateway call fails at any round trip the turn is aborted: no
\* further request is sent (no retry), no further tool call is dispatched,
\* and exactly one assistant message showing the error is appended.
C16_GatewayFailureAborts ==
    /\ [](GatewayFailed =>
            /\ ErrorMessages = {Len(messages)}
            /\ messages[Len(messages)] =
                  Visible("error", "Error: OpenRouter API error: 500 - upstream")
            /\ inFlight = {}
            /\ ~loading)
    /\ [][GatewayFailed =>
            (sent' = sent /\ events' = events /\ messages' = messages)]_vars

C16_Witness ==
    /\ GatewayFailed
    /\ Len(sent) = 3 /\ Len(responses) = 2
    /\ Len(events) >= 4
    /\ messages[Len(messages)].kind = "error"

C18_TurnTerminates ==
    /\ [](Len(toolsSent) <= 3)
    /\ [](tpc = "done" => ~loading)
    /\ (tpc # "idle") ~> (tpc = "done" /\ ~loading)

C18_Witness ==
    /\ tpc = "done" /\ ~loading
    /\ toolsSent = <<"toolFns", "toolFns", "toolFns">>
    /\ i = 3
    /\ messages[Len(messages)].kind = "status"

\* the timeout of the polling loop in progress has elapsed
TimeoutElapsed ==
    /\ \/ job.kind = "waitForOffersReady" /\ job.pc \in {"extract", "sleep"}
       \/ op.kind \in WaitActions /\ op.pc \in {"inject", "sleep"}
    /\ now - PollStart >= PollTimeout

\* the polling action has returned a terminal result
PollReturned ==
    \/ job.kind = "waitForOffersReady" /\ job.pc = "done"
    \/ op.kind \in WaitActions /\ op.pc = "done"

\* C20: the polling actions never hang: whatever the page and the injection
\* round trips do, once the timeout of wait_for_element,
\* wait_for_any_selector or waitForOffersReady has elapsed the action
\* eventually returns a terminal success or failure.
C20_PollingNeverHangs == TimeoutElapsed ~> PollReturned

\* C21: ebay_search is fail-fast: the first step that answers success:false
\* ends the flow, the flow returns that step's result (the condition-label
\* click, which the flow injects itself, with the flow's action name), and
\* no step is started after a failed one.
C21_EbayFailFast ==
    job.kind = "ebay_search" =>
       /\ job.pc \in {"step", "await", "label"} => job.fails = 0
       /\ job.fails <= 1
       /\ job.fails = 1 =>
             /\ job.pc = "done"
             /\ ~job.success
             /\ job.error = job.last.error
             /\ job.action = IF job.step \in 1..Len(job.steps)
                                /\ job.steps[job.step].kind = "clickByLabel"
                             THEN "ebay_search" ELSE job.last.action
             /\ op.pc \in {"idle", "done"}

C21_Witness ==
    /\ job.kind = "ebay_search" /\ job.pc = "done"
    /\ job.fails = 1
    /\ job.step = 2 /\ Len(job.steps) > 5
    /\ job.error = "Element not found or not inputable"

\* a successful get_page_content result has been returned
ContentReturned ==
    op.kind = "get_page_content" /\ op.pc = "done" /\ op.success

\* s holds MinDigitRun digits in a row
HasDigitRun(s) ==
    \E k \in 1..Len(s) :
        /\ k + MinDigitRun - 1 <= Len(s)
        /\ \A m \in k..(k + MinDigitRun - 1) : CharAt(s, m) \in Digits

\* s holds local@domain.tld
HasEmail(s) ==
    \E k \in 2..Len(s) :
        /\ CharAt(s, k) = "@"
        /\ CharAt(s, k - 1) \in LocalChars
        /\ \E e \in (k + 1)..Len(s) :
              /\ \A m \in (k + 1)..e : CharAt(s, m) \in DomainChars
              /\ e + 1 + MinTld <= Len(s)
              /\ CharAt(s, e + 1) = "."
              /\ \A m \in (e + 2)..(e + 1 + MinTld) : CharAt(s, m) \in Letters

\* C22: the text of a successful get_page_content result holds no email
\* address and no run of 6 or more digits, whatever surrounds the run.
C22_TextRedacted ==
    ContentReturned => (~HasEmail(extracted.text) /\ ~HasDigitRun(extracted.text))

\* C23: every successful get_page_content result that includes forms went
\* through the sanitization: each descriptor's value is '' or '[REDACTED]',
\* and it is '[REDACTED]' whenever the field's type is password, its name
\* matches token|password|secret, or its original value was not empty.
C23_FormsSanitized ==
    (ContentReturned /\ extracted.hasForms) =>
       /\ Len(extracted.forms) = Len(page.forms)
       /\ \A k \in 1..Len(page.forms) :
             LET f == page.forms[k]
                 v == extracted.forms[k].value IN
             /\ v \in {"", "[REDACTED]"}
             /\ (toLowerCase(f.type) = "password" \/ SensitiveName(f.name)
                   \/ f.value # "") => v = "[REDACTED]"
             /\ extracted.forms[k].name = f.name
             /\ extracted.forms[k].type = f.type

C23_Witness ==
    /\ ContentReturned /\ extracted.hasForms
    /\ Len(page.forms) = 2
    /\ page.forms[1] = [type |-> "text", name |-> "q", value |-> "hunter2"]
    /\ extracted.forms[1].value = "[REDACTED]"
    /\ page.forms[2] = [type |-> "Password", name |-> "q", value |-> ""]
    /\ extracted.forms[2].value = "[REDACTED]"

\* C24: redaction is idempotent: redacting the extracted text again, or
\* sanitizing the extracted forms again, gives the same text and forms.
C24_RedactionIdempotent ==
    ContentReturned =>
       /\ _redactText(extracted.text) = extracted.text
       /\ _sanitizeForms(extracted.forms) = extracted.forms
       /\ extracted.text = _redactText(page.text)
       /\ extracted.hasForms => extracted.forms = _sanitizeForms(page.forms)

C24_Witness ==
    /\ ContentReturned /\ extracted.hasForms
    /\ page.text = "call 1234567"
    /\ extracted.text = "call [NUMBER]"
    /\ Len(extracted.forms) = 2
    /\ extracted.forms[1].value = "[REDACTED]"
    /\ extracted.forms[2].value = ""

C24_WitnessEmail ==
    /\ ContentReturned
    /\ page.text = "x@y.co 1234567"
    /\ extracted.text = "[EMAIL] [NUMBER]"

\* an offer extraction has returned success with data
OffersReturned ==
    /\ op.kind \in {"extractGoogleShoppingOffers", "extractStoreOffers"}
    /\ op.pc = "done" /\ op.success

\* C25: for scraped offers with parsed prices >= 0, 0 included, the offer
\* extractors return the offers in ascending order of parsed price, none
\* marked used/refurbished unless includeUsed, and at most maxResults.
C25_OffersSorted ==
    OffersReturned =>
       /\ \A k, m \in 1..Len(offered) :
             k < m => offered[k].priceValue <= offered[m].priceValue
       /\ ~op.includeUsed => \A k \in 1..Len(offered) : ~offered[k].isUsed
       /\ Len(offered) <= op.maxResults

\* C26: every entry of the Tab Context Store has a tabId field equal to the
\* key it is stored under, whatever tabId field the context came with.
C26_TabIdMatchesKey ==
    \A t \in TabIds : contexts[t] # NoEntry => contexts[t].tabId = t

C26_Witness ==
    /\ contexts[1] # NoEntry /\ contexts[1].given = 2
    /\ contexts[2] # NoEntry /\ contexts[2].given = 0
    /\ closed = {}

\* C27: a closed tab leaves no context behind: once its removal has been
\* handled and no handler of the tab is in flight, the store holds no entry
\* for it.
C27_ClosedTabLeavesNothing ==
    \A t \in closed : refreshing[t].pending = {} => contexts[t] = NoEntry

\* the choices of the frames of ls up to the first data: [DONE], in order
RECURSIVE ChoicesBeforeDone(_)
ChoicesBeforeDone(ls) ==
    IF ls = <<>> \/ Head(ls) = "data: [DONE]" THEN <<>>
    ELSE (IF Head(ls) \in {"data: {a}", "data: {b}"}
          THEN <<SubSeq(Head(ls), 8, 8)>> ELSE <<>>)
            \o ChoicesBeforeDone(Tail(ls))

IsPrefix(p, q) == Len(p) <= Len(q) /\ SubSeq(q, 1, Len(p)) = p

\* C28: however the body is split across reads, onChunk is called once per
\* frame that has a choice, in arrival order; a frame with malformed JSON is
\* skipped; nothing after the first data: [DONE] triggers a call.
C28_SplitIndependentDecoding ==
    /\ IsPrefix(chunks, ChoicesBeforeDone(body))
    /\ dpc = "returned" => chunks = ChoicesBeforeDone(body)

\* two frames read in three pieces, the first two inside the first line
C28_Witness ==
    /\ dpc = "reading"
    /\ body = <<"data: {a}", "data: {b}">>
    /\ chunks = <<"a">>
    /\ buffer = "data: {"
    /\ Len(wire) = 3

\* a frame with malformed JSON is followed by a frame that is delivered
C28_WitnessSkip ==
    /\ dpc = "returned"
    /\ body = <<"data: {a", "data: {b}">>
    /\ chunks = <<"b">>

\* the frame after the sentinel arrived in the same read and is not delivered
C28_WitnessDone ==
    /\ dpc = "returned"
    /\ body = <<"data: [DONE]", "data: {a}">>
    /\ chunks = <<>>
    /\ wire = ""

\* the step is a rate-checked call that was rejected
RejectedCall ==
    /\ Len(rateLog') = Len(rateLog) + 1
    /\ ~rateLog'[Len(rateLog')].ok

\* C29: the rate check follows the increment: in a window exactly the
\* first L calls of a tab succeed and the next ones are rejected; a rejected
\* call adds one to the tab's count and leaves windowStart as it was.
C29_CheckAfterIncrement ==
    /\ [](\A tabId \in TabIds :
             LET s == TabLog(tabId) IN
             \A n \in 1..Len(s) :
                 s[n].ok <=> Cardinality(InWindow(s, n)) <= s[n].limit)
    /\ [][RejectedCall =>
             LET t == rateLog'[Len(rateLog')].tabId IN
             /\ t \in DOMAIN rateCounter
             /\ rateCounter'[t].count = rateCounter[t].count + 1
             /\ rateCounter'[t].count > settings.rateLimitPer30s
             /\ rateCounter'[t].windowStart = rateCounter[t].windowStart]_vars

C29_Witness ==
    \E tabId \in TabIds :
        LET s == TabLog(tabId) IN
        /\ Len(s) = 4
        /\ s[1].limit = 2
        /\ s[1].ok /\ s[2].ok /\ ~s[3].ok /\ ~s[4].ok
        /\ s[4].t > s[1].t
        /\ rateCounter[tabId] = [count |-> 4, windowStart |-> s[1].t]

\* the action in progress was rejected before the rate limiter
RejectedUnchecked ==
    /\ op.pc = "done" /\ ~op.success
    /\ \/ op.kind \in InjectingActions /\ op.error = RestrictedError(op.kind)
       \/ startsWith(op.error, "Domain not allowed: ")
       \/ op.error = "Unable to verify domain policy"

\* the RateWindow of a tab as a sequence: empty when it has none
WindowEntry(counter, tabId) ==
    IF tabId \in DOMAIN counter THEN <<counter[tabId]>> ELSE <<>>

\* C30: only rate-checked calls touch a RateWindow: an action rejected for a
\* URL that is not injectable or by the domain check leaves the rateCounter
\* map as it was when the action was called, and a call of _enforcePolicies
\* for one tab changes the RateWindow of no other tab.
C30_OnlyRateCheckedCallsCount ==
    /\ [](RejectedUnchecked => rateCounter = op.before)
    /\ [][\A B \in TabIds :
             WindowEntry(rateCounter', B) # WindowEntry(rateCounter, B)
                => /\ nAuth' = nAuth + 1 \/ auth.pc = "tabsGet"
                   /\ auth'.pc = "done" /\ auth'.tabId = B
                   /\ \/ auth'.result.success
                      \/ auth'.result.error = "Rate limit exceeded"]_vars

C30_Witness ==
    /\ RejectedUnchecked
    /\ op.error = RestrictedError(op.kind)
    /\ DOMAIN rateCounter = {1, 2}
    /\ \A tabId \in TabIds : rateCounter[tabId].count > 0
    /\ rateCounter = op.before

C30_WitnessDomain ==
    /\ RejectedUnchecked
    /\ startsWith(op.error, "Domain not allowed: ")
    /\ op.tabId \in DOMAIN rateCounter
    /\ rateCounter[op.tabId].count > 0
    /\ rateCounter = op.before

\* C31: with allowAllAutomation false and an empty domainWhitelist (the
\* settings of the constructor), no call of _enforcePolicies fails with
\* 'Domain not allowed', whatever hostname the tab or the hint has.
C31_EmptyWhitelistRestrictsNothing ==
    (Finished /\ ~auth.allowAll /\ auth.whitelist = <<>>) => ~DomainRejected

C31_Witness ==
    /\ Finished /\ ~auth.allowAll /\ auth.lookup = "tab"
    /\ auth.whitelist = <<>>
    /\ auth.domain = "other.com"
    /\ auth.result.success

\* ebay_search has returned success:true
EbaySucceeded ==
    job.kind = "ebay_search" /\ job.pc = "done" /\ job.success

\* C32: ebay_search returns success:true only if every step its parameters
\* require ran and succeeded: the five steps of the search, the three of the
\* Sold Items filter when soldOnly is not false, and the click of the
\* condition's menu item when a condition other than 'any' was given.
C32_NoPartialSuccess ==
    EbaySucceeded =>
       /\ job.fails = 0
       /\ job.step - 1 >= 5 + (IF job.soldOnly THEN 3 ELSE 0)
       /\ job.condition \notin {"", "any"} => job.filtered

\* C33: the store holds the most recently extracted context: once the
\* refreshes of an open tab have all finished, its entry is the result of the
\* latest load event, and no refresh replaces the result of a later load
\* event by its own.
C33_LatestRefreshWins ==
    /\ [](\A t \in TabIds \ closed :
             (refreshing[t].loads > 0 /\ refreshing[t].pending = {})
                => contexts[t].load = refreshing[t].loads)
    /\ [][\A t \in TabIds :
             (contexts[t] # NoEntry /\ contexts'[t] # NoEntry)
                => contexts'[t].load >= contexts[t].load]_vars

\* the number of words of s: the places where a run of other characters
\* follows white space or starts s
CountWords(s) ==
    Cardinality({k \in 1..Len(s) :
                    /\ CharAt(s, k) \notin WhiteSpace
                    /\ k = 1 \/ CharAt(s, k - 1) \in WhiteSpace})

\* C34: the summary computed for a tab whose context the automatic refresh
\* stored from a successful extraction carries the page's title and URL, a
\* word count equal to the number of white-space-separated words of the
\* extracted text, and a section count equal to the number of extracted
\* headings.
C34_SummaryOfRefreshedTab ==
    (~summary.null /\ summary.from.load > 0 /\ summary.from.success)
    => LET data == summary.from.data IN
       /\ summary.title = data.title
       /\ summary.url = data.url
       /\ summary.words = CountWords(data.text)
       /\ summary.sections = Len(data.headings)

\* no call of the flow failed for another reason than the rate limit, and
\* a poll of waitForOffersReady started with the offers on the page
OffersWereThere == job.caller = "fetch_prices" /\ job.seen /\ job.fails = 0

\* C35: waitForOffersReady absorbs late rendering under every rate limit: if
\* the page holds at least minCount qualifying offers when the loop polls
\* before its timeout, and keeps them, waitForOffersReady returns success
\* with count >= minCount, and the extraction that follows it in
\* fetch_prices returns those offers.
C35_OffersReadyAbsorbsLateRendering ==
    /\ (OffersWereThere /\ job.kind = "waitForOffersReady" /\ job.pc = "done")
          => (job.success /\ job.n >= 1)
    /\ (OffersWereThere /\ job.kind = "fetch_prices" /\ job.pc = "done"
           /\ (op.success \/ op.error = "Rate limit exceeded"))
          => /\ job.ready = "success"
             /\ job.success
             /\ offered = GoogleOffers(offers, FALSE, job.maxResults)

\* the response that the step has just processed
Processed == responses'[Len(responses')]

\* C36: both tool-call encodings are honoured: a model message with a legacy
\* function_call, its tool_calls absent or an empty array, is executed as
\* exactly one tool call with that name and arguments, and a message is
\* treated as the final answer only when it has neither a non-empty
\* tool_calls array nor a function_call.
C36_BothEncodingsHonoured ==
    [][(Len(responses') = Len(responses) + 1 /\ Processed.hasMsg)
          => LET msg == Processed.msg IN
             /\ (msg.function_call.present /\ msg.tool_calls.items = <<>>)
                   => (tpc' = "dispatch" /\ batch' = <<msg.function_call.call>>)
             /\ (tpc' = "credits")
                   => (msg.tool_calls.items = <<>> /\ ~msg.function_call.present)]_vars

\* C37: the arguments of the tool catalog reach the executor: when the
\* model's fetch_prices call carries a non-empty sources list, the background
\* handler receives it and runs the multi-store flow over those sources, not
\* the Google Shopping flow.
C37_SourcesReachHandler ==
    (job.caller = "fetch_prices" /\ job.asked # <<>>)
    => (job.flow = "stores" /\ job.sources = job.asked)

\* the calls that are being executed by an automation action
AutomationRunning == {j \in inFlight : batch[j].name \in ReadsParams}

\* C38: an automation action is dispatched only for a tool of the catalog
\* that was sent with the requests of the turn: with automation disabled, no
\* open_url, click_element, type_text, get_page_content, wait_for_element,
\* ebay_search, fetch_prices or upc_lookup action is executed, whatever tool
\* names the model's response contains.
C38_OnlyOfferedToolsRun ==
    \A j \in AutomationRunning : batch[j].name \in toolFns(automationEnabled)

\* the largest batch of tool calls in one response
MaxBatch == 3

\* the positions of events where call k of round r was dispatched
StartsOf(r, k) ==
    {p \in 1..Len(events) : events[p] = [ev |-> "start", round |-> r, idx |-> k]}

\* the calls that have returned a result, in order
Returns == SelectSeq(events, LAMBDA e : e.ev = "return")

\* the turn was ended by an exception of the executor, not by a result
Thrown == tpc = "done" /\ Len(events) > 0 /\ events[Len(events)].ev # "return"

\* a function-role message that reports a failed action
ReportsFailure(m) == m.role = "function" /\ m.content # "{\"success\":true}"

\* this step is the return of a call whose action failed
ToolFailed ==
    /\ Len(convo') = Len(convo) + 2
    /\ ReportsFailure(convo'[Len(convo')])

====
